---------------------------- MODULE Spec2Model ----------------------------
(***************************************************************************)
(* The tax engine of tax-squirrel: the tax-law registry (TaxLawService),   *)
(* the calculator (TaxCalculationService) and the callers that drive them. *)
(*                                                                         *)
(* Numbers.  The code computes in IEEE doubles and rounds at the end.      *)
(* Here every input amount is a whole number of dollars, and every derived *)
(* amount is an exact decimal: a record [d, f] standing for d + f / 10^8   *)
(* dollars with 0 <= f < 10^8 (eight decimals hold every product the       *)
(* pipeline forms from whole-dollar inputs and four-decimal rates).  Rates *)
(* are integers in units of 1/10000 (0.062 is 620, 0.10 is 1000).  All     *)
(* intermediate integers stay below 2^31.                                  *)
(***************************************************************************)
EXTENDS Integers, Sequences, FiniteSets, TLC

(***************************************************************************)
(* Exact decimal arithmetic                                                *)
(***************************************************************************)
FracScale == 10^8
RateScale == 10^4

FixOfInt(n) == [d |-> n, f |-> 0]

FixZero == FixOfInt(0)

FixAdd(a, b) ==
  LET s == a.f + b.f
  IN  [d |-> a.d + b.d + (s \div FracScale), f |-> s % FracScale]

FixSub(a, b) ==
  LET s == a.f - b.f
  IN  IF s < 0 THEN [d |-> a.d - b.d - 1, f |-> s + FracScale]
               ELSE [d |-> a.d - b.d, f |-> s]

FixLt(a, b) == a.d < b.d \/ (a.d = b.d /\ a.f < b.f)

FixLe(a, b) == a.d < b.d \/ (a.d = b.d /\ a.f <= b.f)

FixMin(a, b) == IF FixLe(a, b) THEN a ELSE b

FixMax(a, b) == IF FixLe(a, b) THEN b ELSE a

FixIsPos(a) == FixLt(FixZero, a)

\* n whole dollars times the rate k / 10000 (0 <= k <= 10000).
MulIntRate(n, k) ==
  LET q == n \div RateScale
      r == n % RateScale
      p == r * k
  IN  [d |-> q * k + (p \div RateScale), f |-> (p % RateScale) * RateScale]

\* An amount of at most four decimals times the rate k / 10000.
FixMulRate(x, k) ==
  FixAdd(MulIntRate(x.d, k), [d |-> 0, f |-> (x.f \div RateScale) * k])

\* An amount times a small whole number (0 <= k <= 10).
FixMulInt(x, k) ==
  LET s == x.f * k
  IN  [d |-> x.d * k + (s \div FracScale), f |-> s % FracScale]

(***************************************************************************)
(* Filing statuses and the law configurations the service seeds            *)
(***************************************************************************)
SINGLE == "single"
MARRIED_FILING_JOINTLY == "marriedFilingJointly"
MARRIED_FILING_SEPARATELY == "marriedFilingSeparately"
HEAD_OF_HOUSEHOLD == "headOfHousehold"
QUALIFYING_WIDOW == "qualifyingWidow"

FilingStatus ==
  {SINGLE, MARRIED_FILING_JOINTLY, MARRIED_FILING_SEPARATELY,
   HEAD_OF_HOUSEHOLD, QUALIFYING_WIDOW}

\* The stored max of every top bracket.
TopBracketMax == 999999999

Bracket(lo, hi, rate) == [min |-> lo, max |-> hi, rate |-> rate]

\* Seven brackets from their six inner boundaries; the rates are those of
\* every seeded table: 10, 12, 22, 24, 32, 35 and 37 percent.
SevenBrackets(b1, b2, b3, b4, b5, b6) ==
  << Bracket(0, b1, 1000), Bracket(b1, b2, 1200), Bracket(b2, b3, 2200),
     Bracket(b3, b4, 2400), Bracket(b4, b5, 3200), Bracket(b5, b6, 3500),
     Bracket(b6, TopBracketMax, 3700) >>

ByStatus(s, mfj, mfs, hoh, qw) ==
  (SINGLE :> s) @@ (MARRIED_FILING_JOINTLY :> mfj)
    @@ (MARRIED_FILING_SEPARATELY :> mfs) @@ (HEAD_OF_HOUSEHOLD :> hoh)
    @@ (QUALIFYING_WIDOW :> qw)

getTaxYear2024Configuration ==
  [ taxYear |-> 2024,
    standardDeductions |-> ByStatus(14600, 29200, 14600, 21900, 29200),
    taxBrackets |-> ByStatus(
      SevenBrackets(11000, 44725, 95375, 197050, 250525, 626350),
      SevenBrackets(22000, 89450, 190750, 364200, 462500, 693750),
      SevenBrackets(11000, 44725, 95375, 182050, 231250, 346875),
      SevenBrackets(15700, 59850, 95350, 182050, 231250, 609350),
      SevenBrackets(22000, 89450, 190750, 364200, 462500, 693750)),
    socialSecurityWageBase |-> 168600,
    socialSecurityRate |-> 620,
    medicareRate |-> 145,
    additionalMedicareRate |-> 90,
    additionalMedicareThreshold |->
      ByStatus(200000, 250000, 125000, 200000, 250000),
    personalExemption |-> 0,
    childTaxCreditAmount |-> 2000,
    childTaxCreditPhaseoutThreshold |->
      ByStatus(200000, 400000, 200000, 200000, 400000) ]

getTaxYear2023Configuration ==
  [ taxYear |-> 2023,
    standardDeductions |-> ByStatus(13850, 27700, 13850, 20800, 27700),
    taxBrackets |-> ByStatus(
      SevenBrackets(11000, 44725, 95375, 182050, 231250, 578125),
      SevenBrackets(22000, 89450, 190750, 364200, 462500, 693750),
      SevenBrackets(11000, 44725, 95375, 182100, 231250, 346875),
      SevenBrackets(15700, 59850, 95350, 182050, 231250, 578100),
      SevenBrackets(22000, 89450, 190750, 364200, 462500, 693750)),
    socialSecurityWageBase |-> 160200,
    socialSecurityRate |-> 620,
    medicareRate |-> 145,
    additionalMedicareRate |-> 90,
    additionalMedicareThreshold |->
      ByStatus(200000, 250000, 125000, 200000, 250000),
    personalExemption |-> 0,
    childTaxCreditAmount |-> 2000,
    childTaxCreditPhaseoutThreshold |->
      ByStatus(200000, 400000, 200000, 200000, 400000) ]

(***************************************************************************)
(* TaxCalculationService: the private steps of calculateTax                *)
(***************************************************************************)
Min(a, b) == IF a <= b THEN a ELSE b

Max(a, b) == IF a >= b THEN a ELSE b

\* Array.prototype.reduce((sum, x) => sum + x, 0) over a list of numbers.
RECURSIVE reduce(_)
reduce(xs) == IF xs = << >> THEN 0 ELSE Head(xs) + reduce(Tail(xs))

calculateGrossIncome(income) ==
  reduce([i \in DOMAIN income.wages |-> income.wages[i].wages])
  + reduce([i \in DOMAIN income.selfEmployment |->
              income.selfEmployment[i].netProfit])
  + reduce([i \in DOMAIN income.investment |->
              income.investment[i].taxableAmount])
  + reduce([i \in DOMAIN income.retirement |->
              income.retirement[i].taxableAmount])
  + reduce([i \in DOMAIN income.other |->
              IF income.other[i].taxable THEN income.other[i].amount ELSE 0])

\* return grossIncome - adjustments: the slip of leaving out Math.max(0, .).
calculateAdjustedGrossIncomeUnclamped(grossIncome, deductions) ==
  grossIncome
  - reduce([i \in DOMAIN deductions.adjustments |->
              deductions.adjustments[i].amount])

calculateAdjustedGrossIncome(grossIncome, deductions) ==
  LET adjustments ==
        reduce([i \in DOMAIN deductions.adjustments |->
                  deductions.adjustments[i].amount])
  IN  Max(0, grossIncome - adjustments)

\* Math.min(standardDeduction, itemizedDeductions): the slip of taking the
\* lower of the two deductions.
calculateTaxableIncomeLower(adjustedGrossIncome, deductions, taxLawConfig, filingStatus) ==
  LET standardDeduction == taxLawConfig.standardDeductions[filingStatus]
      itemizedDeductions == deductions.totalItemizedDeductions
      deductionAmount == Min(standardDeduction, itemizedDeductions)
  IN  Max(0, adjustedGrossIncome - deductionAmount)

calculateTaxableIncome(adjustedGrossIncome, deductions, taxLawConfig, filingStatus) ==
  LET standardDeduction == taxLawConfig.standardDeductions[filingStatus]
      itemizedDeductions == deductions.totalItemizedDeductions
      deductionAmount == Max(standardDeduction, itemizedDeductions)
  IN  Max(0, adjustedGrossIncome - deductionAmount)

\* tax = taxableAtThisBracket * bracket.rate, a plausible slip for +=.
accrueOverwrite(tax, taxableAtThisBracket, rate) ==
  MulIntRate(taxableAtThisBracket, rate)

\* tax += taxableAtThisBracket * bracket.rate
accrue(tax, taxableAtThisBracket, rate) ==
  FixAdd(tax, MulIntRate(taxableAtThisBracket, rate))

\* The loop of calculateFederalTax from bracket i on.
RECURSIVE bracketWalk(_, _, _, _)
bracketWalk(brackets, i, tax, remainingIncome) ==
  IF i > Len(brackets) \/ remainingIncome <= 0
  THEN tax
  ELSE LET bracket == brackets[i]
           taxableAtThisBracket ==
             Min(remainingIncome, bracket.max - bracket.min)
       IN  bracketWalk(brackets, i + 1,
                       accrue(tax, taxableAtThisBracket, bracket.rate),
                       remainingIncome - taxableAtThisBracket)

\* remainingIncome when the loop of calculateFederalTax, entered at bracket
\* i, has ended: the income no bracket took.
RECURSIVE unassigned(_, _, _)
unassigned(brackets, i, remainingIncome) ==
  IF i > Len(brackets) \/ remainingIncome <= 0
  THEN remainingIncome
  ELSE unassigned(brackets, i + 1,
                  remainingIncome
                  - Min(remainingIncome, brackets[i].max - brackets[i].min))

calculateFederalTax(taxableIncome, taxLawConfig, filingStatus) ==
  bracketWalk(taxLawConfig.taxBrackets[filingStatus], 1, FixZero,
              taxableIncome)

\* taxableIncome >= bracket.min && taxableIncome <= bracket.max: a closed
\* range, the slip that hands a boundary income to the lower bracket.
inBracketClosed(taxableIncome, bracket) ==
  taxableIncome >= bracket.min /\ taxableIncome <= bracket.max

\* taxableIncome >= bracket.min && taxableIncome < bracket.max
inBracket(taxableIncome, bracket) ==
  taxableIncome >= bracket.min /\ taxableIncome < bracket.max

calculateMarginalTaxRate(taxableIncome, taxLawConfig, filingStatus) ==
  LET brackets == taxLawConfig.taxBrackets[filingStatus]
      hits == {i \in DOMAIN brackets : inBracket(taxableIncome, brackets[i])}
  IN  IF hits # {}
      THEN brackets[CHOOSE i \in hits : \A j \in hits : i <= j].rate
      ELSE brackets[Len(brackets)].rate

\* Math.floor(excessIncome / 1000): the slip of rounding the excess down.
FloorDiv(n, k) == n \div k

\* Math.ceil(excessIncome / 1000) for a whole number of dollars.
CeilDiv(n, k) == -((-n) \div k)

PhaseoutStep == 1000
PhaseoutPerStep == 50


calculateChildTaxCredit(baseCredit, adjustedGrossIncome, taxLawConfig, filingStatus) ==
  IF baseCredit = 0 THEN 0
  ELSE LET phaseoutThreshold ==
             taxLawConfig.childTaxCreditPhaseoutThreshold[filingStatus]
           excessIncome == adjustedGrossIncome - phaseoutThreshold
           phaseoutAmount ==
             CeilDiv(excessIncome, PhaseoutStep) * PhaseoutPerStep
       IN  IF adjustedGrossIncome <= phaseoutThreshold
           THEN baseCredit
           ELSE Max(0, baseCredit - phaseoutAmount)

calculateTotalCredits(credits, adjustedGrossIncome, taxLawConfig, filingStatus) ==
  calculateChildTaxCredit(credits.childTaxCredit, adjustedGrossIncome,
                          taxLawConfig, filingStatus)
  + credits.earnedIncomeCredit
  + credits.educationCredits
  + credits.retirementSavingsCredit
  + reduce([i \in DOMAIN credits.otherCredits |->
              credits.otherCredits[i].amount])

SeExemptProfit == 400
SeNetEarningsRate == 9235

\* selfEmploymentIncome < 400: the slip that taxes a profit of exactly 400.
seExemptStrict(selfEmploymentIncome) == selfEmploymentIncome < SeExemptProfit

\* selfEmploymentIncome <= 400
seExempt(selfEmploymentIncome) == selfEmploymentIncome <= SeExemptProfit

\* The three parts of the self-employment tax on a total net profit.
selfEmploymentTaxParts(selfEmploymentIncome, taxLawConfig) ==
  LET seIncomeForTax == MulIntRate(selfEmploymentIncome, SeNetEarningsRate)
      socialSecurityTax ==
        FixMulInt(
          FixMulRate(
            FixMin(seIncomeForTax,
                   FixOfInt(taxLawConfig.socialSecurityWageBase)),
            taxLawConfig.socialSecurityRate),
          2)
      medicareTax ==
        FixMulInt(FixMulRate(seIncomeForTax, taxLawConfig.medicareRate), 2)
      additionalMedicareTax == FixZero
  IN  [ seIncomeForTax |-> seIncomeForTax,
        socialSecurityTax |-> socialSecurityTax,
        medicareTax |-> medicareTax,
        additionalMedicareTax |-> additionalMedicareTax ]

calculateSelfEmploymentTax(income, taxLawConfig) ==
  LET selfEmploymentIncome ==
        reduce([i \in DOMAIN income.selfEmployment |->
                  income.selfEmployment[i].netProfit])
      parts == selfEmploymentTaxParts(selfEmploymentIncome, taxLawConfig)
  IN  IF seExempt(selfEmploymentIncome)
      THEN FixZero
      ELSE FixAdd(FixAdd(parts.socialSecurityTax, parts.medicareTax),
                  parts.additionalMedicareTax)

calculateTotalWithholding(income) ==
  reduce([i \in DOMAIN income.wages |-> income.wages[i].federalTaxWithheld])
  + reduce([i \in DOMAIN income.retirement |->
              income.retirement[i].federalTaxWithheld])

\* Math.round(value * 100) / 100: to the nearest cent, a half cent up.
roundToTwoDec(value) ==
  LET cents == value.f \div 10^6
      rest == value.f % 10^6
      rounded == IF 2 * rest >= 10^6 THEN cents + 1 ELSE cents
  IN  [d |-> value.d + (rounded \div 100), f |-> (rounded % 100) * 10^6]

\* The next k decimal digits of rest / q, then the half-up carry.
RECURSIVE quotientDigits(_, _, _, _)
quotientDigits(rest, q, k, acc) ==
  IF k = 0
  THEN IF FixLe(FixOfInt(q), FixMulInt(rest, 2)) THEN acc + 1 ELSE acc
  ELSE LET t == FixMulInt(rest, 10)
       IN  quotientDigits([d |-> t.d % q, f |-> t.f], q, k - 1,
                          acc * 10 + (t.d \div q))

\* Math.round(value * 10000) / 10000 of the quotient n / q (n >= 0, q >= 1),
\* in units of 1/10000.
roundToFourDec(n, q) ==
  quotientDigits([d |-> n.d % q, f |-> n.f], q, 4, n.d \div q)

(***************************************************************************)
(* TaxCalculationService.calculateTax                                      *)
(***************************************************************************)
INTERNAL_ERROR == "INTERNAL_ERROR"

\* A value or null: the empty list is null, << v >> is v.
Null == << >>

Some(v) == << v >>

\* refundAmount is always the difference, so both amounts can be positive:
\* the slip of dropping the else.
settleBoth(totalWithholding, estimatedPayments, totalTaxLiability) ==
  LET paid == FixOfInt(totalWithholding + estimatedPayments)
  IN  [ refundAmount |-> FixSub(paid, totalTaxLiability),
        amountOwed |-> FixSub(totalTaxLiability, paid) ]

\* Lines 58 to 65: the refund or the amount owed.
settle(totalWithholding, estimatedPayments, totalTaxLiability) ==
  LET paid == FixOfInt(totalWithholding + estimatedPayments)
  IN  IF FixLt(totalTaxLiability, paid)
      THEN [ refundAmount |-> FixSub(paid, totalTaxLiability),
             amountOwed |-> FixZero ]
      ELSE [ refundAmount |-> FixZero,
             amountOwed |-> FixSub(totalTaxLiability, paid) ]

\* What the try block does with a configuration in hand throws exactly when
\* the filing status has no bracket list to iterate or to index.
calculationThrows(taxReturn, taxLawConfig) ==
  \/ taxReturn.filingStatus \notin DOMAIN taxLawConfig.taxBrackets
  \/ taxLawConfig.taxBrackets[taxReturn.filingStatus] = << >>

\* Lines 46 to 85: the calculation, step by step, then the rounding.
\* totalTaxLiability / Math.max(adjustedGrossIncome, 1): the slip of
\* guarding the division by raising the divisor.
effectiveTaxRateOverAtLeastOne(totalTaxLiability, adjustedGrossIncome) ==
  roundToFourDec(totalTaxLiability, Max(adjustedGrossIncome, 1))

\* Lines 67 and 83: adjustedGrossIncome > 0 ? totalTaxLiability /
\* adjustedGrossIncome : 0, rounded to four decimals, in units of 1/10000.
effectiveTaxRate(totalTaxLiability, adjustedGrossIncome) ==
  IF adjustedGrossIncome > 0
  THEN roundToFourDec(totalTaxLiability, adjustedGrossIncome)
  ELSE roundToFourDec(FixZero, 1)

calculation(taxReturn, taxLawConfig) ==
  LET filingStatus == taxReturn.filingStatus
      grossIncome == calculateGrossIncome(taxReturn.income)
      adjustedGrossIncome ==
        calculateAdjustedGrossIncome(grossIncome, taxReturn.deductions)
      taxableIncome ==
        calculateTaxableIncome(adjustedGrossIncome, taxReturn.deductions,
                               taxLawConfig, filingStatus)
      federalTaxBeforeCredits ==
        calculateFederalTax(taxableIncome, taxLawConfig, filingStatus)
      totalCredits ==
        calculateTotalCredits(taxReturn.credits, adjustedGrossIncome,
                              taxLawConfig, filingStatus)
      federalTaxAfterCredits ==
        FixMax(FixZero, FixSub(federalTaxBeforeCredits, FixOfInt(totalCredits)))
      selfEmploymentTax ==
        calculateSelfEmploymentTax(taxReturn.income, taxLawConfig)
      totalTaxLiability == FixAdd(federalTaxAfterCredits, selfEmploymentTax)
      totalWithholding == calculateTotalWithholding(taxReturn.income)
      estimatedPayments == 0
      settled == settle(totalWithholding, estimatedPayments, totalTaxLiability)
      marginalTaxRate ==
        calculateMarginalTaxRate(taxableIncome, taxLawConfig, filingStatus)
  IN  [ grossIncome |-> roundToTwoDec(FixOfInt(grossIncome)),
        adjustedGrossIncome |-> roundToTwoDec(FixOfInt(adjustedGrossIncome)),
        taxableIncome |-> roundToTwoDec(FixOfInt(taxableIncome)),
        federalTaxBeforeCredits |-> roundToTwoDec(federalTaxBeforeCredits),
        totalCredits |-> roundToTwoDec(FixOfInt(totalCredits)),
        federalTaxAfterCredits |-> roundToTwoDec(federalTaxAfterCredits),
        selfEmploymentTax |-> roundToTwoDec(selfEmploymentTax),
        totalTaxLiability |-> roundToTwoDec(totalTaxLiability),
        totalWithholding |-> roundToTwoDec(FixOfInt(totalWithholding)),
        estimatedPayments |-> roundToTwoDec(FixOfInt(estimatedPayments)),
        refundAmount |-> roundToTwoDec(settled.refundAmount),
        amountOwed |-> roundToTwoDec(settled.amountOwed),
        effectiveTaxRate |->
          effectiveTaxRate(totalTaxLiability, adjustedGrossIncome),
        marginalTaxRate |->
          roundToFourDec(MulIntRate(1, marginalTaxRate), 1) ]

\* calculateTax once getTaxLawConfiguration has answered taxLawConfig
\* (null or a configuration).
calculateTax(taxReturn, taxLawConfig) ==
  IF taxLawConfig = Null
  THEN [ success |-> FALSE,
         error |-> [ code |-> INTERNAL_ERROR,
                     message |-> << "Tax law configuration not found for year",
                                    taxReturn.taxYear >> ] ]
  ELSE IF calculationThrows(taxReturn, taxLawConfig[1])
  THEN [ success |-> FALSE,
         error |-> [ code |-> INTERNAL_ERROR,
                     message |->
                       << "Tax calculation failed due to internal error" >> ] ]
  ELSE [ success |-> TRUE,
         data |-> calculation(taxReturn, taxLawConfig[1]),
         message |-> << "Tax calculation completed successfully" >> ]

\* taxLawConfig?.standardDeductions[filingStatus] || 0
calculateStandardDeduction(taxLawConfig, filingStatus) ==
  IF taxLawConfig = Null THEN 0
  ELSE IF filingStatus \notin DOMAIN taxLawConfig[1].standardDeductions THEN 0
  ELSE taxLawConfig[1].standardDeductions[filingStatus]

\* itemizedDeductions >= standardDeduction: the slip that itemizes on a tie.
itemizeOnTie(itemizedDeductions, standardDeduction) ==
  itemizedDeductions >= standardDeduction

\* const useItemized = itemizedDeductions > standardDeduction
itemize(itemizedDeductions, standardDeduction) ==
  itemizedDeductions > standardDeduction

\* calculateItemizedVsStandard once calculateStandardDeduction has answered.
calculateItemizedVsStandard(standardDeduction, itemizedDeductions) ==
  LET useItemized == itemize(itemizedDeductions, standardDeduction)
  IN  [ useItemized |-> useItemized,
        deductionAmount |->
          IF useItemized THEN itemizedDeductions ELSE standardDeduction,
        savings |->
          IF useItemized THEN itemizedDeductions - standardDeduction ELSE 0 ]

(***************************************************************************)
(* TaxLawService: the table tax_law_configurations and the cache           *)
(***************************************************************************)
\* The columns of a row that getTaxLawConfiguration maps.  DECIMAL(12,2)
\* columns hold hundredths, DECIMAL(5,4) columns hold ten-thousandths, the
\* JSONB columns hold the objects as given.  The columns id, created_at and
\* updated_at are read by no code and are left out.
rowOf(config) ==
  [ tax_year |-> config.taxYear,
    standard_deductions |-> config.standardDeductions,
    tax_brackets |-> config.taxBrackets,
    social_security_wage_base |-> config.socialSecurityWageBase * 100,
    social_security_rate |-> config.socialSecurityRate,
    medicare_rate |-> config.medicareRate,
    additional_medicare_rate |-> config.additionalMedicareRate,
    additional_medicare_threshold |-> config.additionalMedicareThreshold,
    personal_exemption |-> config.personalExemption * 100,
    child_tax_credit_amount |-> config.childTaxCreditAmount * 100,
    child_tax_credit_phaseout_threshold |->
      config.childTaxCreditPhaseoutThreshold ]

\* Lines 344 to 357: the configuration built from a row; parseFloat of a
\* DECIMAL(12,2) text gives back the dollars.
configOf(row) ==
  [ taxYear |-> row.tax_year,
    standardDeductions |-> row.standard_deductions,
    taxBrackets |-> row.tax_brackets,
    socialSecurityWageBase |-> row.social_security_wage_base \div 100,
    socialSecurityRate |-> row.social_security_rate,
    medicareRate |-> row.medicare_rate,
    additionalMedicareRate |-> row.additional_medicare_rate,
    additionalMedicareThreshold |-> row.additional_medicare_threshold,
    personalExemption |-> row.personal_exemption \div 100,
    childTaxCreditAmount |-> row.child_tax_credit_amount \div 100,
    childTaxCreditPhaseoutThreshold |->
      row.child_tax_credit_phaseout_threshold ]

\* The row the schema script inserts for 2024: brackets for single filers
\* only.
schemaSeedRow ==
  [ tax_year |-> 2024,
    standard_deductions |-> ByStatus(14600, 29200, 14600, 21900, 29200),
    tax_brackets |->
      (SINGLE :> SevenBrackets(11000, 44725, 95375, 197050, 250525, 626350)),
    social_security_wage_base |-> 16860000,
    social_security_rate |-> 620,
    medicare_rate |-> 145,
    additional_medicare_rate |-> 90,
    additional_medicare_threshold |->
      ByStatus(200000, 250000, 125000, 200000, 250000),
    personal_exemption |-> 0,
    child_tax_credit_amount |-> 200000,
    child_tax_credit_phaseout_threshold |->
      ByStatus(200000, 400000, 200000, 200000, 400000) ]

\* Map.prototype.set, and INSERT ... ON CONFLICT (tax_year) DO UPDATE.
put(map, key, value) ==
  [k \in DOMAIN map \cup {key} |-> IF k = key THEN value ELSE map[k]]

\* Map.prototype.clear
emptyMap == [k \in {} |-> 0]

(***************************************************************************)
(* Inputs: tax returns                                                     *)
(***************************************************************************)
Wage(wages, federalTaxWithheld) ==
  [wages |-> wages, federalTaxWithheld |-> federalTaxWithheld]

SelfEmployment(netProfit) == [netProfit |-> netProfit]

Investment(taxableAmount) == [taxableAmount |-> taxableAmount]

Retirement(taxableAmount, federalTaxWithheld) ==
  [taxableAmount |-> taxableAmount, federalTaxWithheld |-> federalTaxWithheld]

Other(amount, taxable) == [amount |-> amount, taxable |-> taxable]

Amount(amount) == [amount |-> amount]

Income(wages, selfEmployment, extra) ==
  [ wages |-> wages, selfEmployment |-> selfEmployment,
    investment |-> extra.investment, retirement |-> extra.retirement,
    other |-> extra.other ]

Deductions(adjustments, totalItemizedDeductions) ==
  [ adjustments |-> adjustments,
    totalItemizedDeductions |-> totalItemizedDeductions ]

TaxReturn(taxYear, filingStatus, income, deductions, credits) ==
  [ taxYear |-> taxYear, filingStatus |-> filingStatus, income |-> income,
    deductions |-> deductions, credits |-> credits ]

NoExtraIncome == [investment |-> << >>, retirement |-> << >>, other |-> << >>]

NoCredits ==
  [ childTaxCredit |-> 0, earnedIncomeCredit |-> 0, educationCredits |-> 0,
    retirementSavingsCredit |-> 0, otherCredits |-> << >> ]

\* The tax years the service seeds, and the year before them, which has no
\* configuration anywhere.
FirstTaxYear == 2023
LastTaxYear == 2024
TaxYears == FirstTaxYear .. LastTaxYear
UnconfiguredYear == FirstTaxYear - 1

\* Single filer, 2024, wages 60000 with 5000 withheld, nothing else.
ScenarioReturn ==
  TaxReturn(2024, SINGLE,
            Income(<< Wage(60000, 5000) >>, << >>, NoExtraIncome),
            Deductions(<< >>, 0), NoCredits)

WageLists ==
  { << >>,
    << Wage(60000, 5000) >>,
    << Wage(60000, 5296) >>,
    << Wage(30000, 2000), Wage(30000, 3000) >>,
    << Wage(410000, 90000) >>,
    << Wage(0, 65) >>,
    << Wage(0, 103) >> }

SelfEmploymentLists ==
  { << >>,
    << SelfEmployment(400) >>,
    << SelfEmployment(401) >>,
    << SelfEmployment(460) >>,
    << SelfEmployment(729) >>,
    << SelfEmployment(6000), SelfEmployment(4000) >>,
    << SelfEmployment(-5000) >>,
    << SelfEmployment(200000) >> }

ExtraIncomes ==
  { NoExtraIncome,
    [ investment |-> << Investment(1500) >>,
      retirement |-> << Retirement(10000, 1000) >>,
      other |-> << Other(500, TRUE), Other(700, FALSE) >> ] }

AdjustmentLists ==
  { << >>, << Amount(2000) >>, << Amount(300000), Amount(200000) >> }

ItemizedTotals == {0, 12000, 20000}

CreditSets ==
  { NoCredits,
    [ childTaxCredit |-> 2000, earnedIncomeCredit |-> 0,
      educationCredits |-> 0, retirementSavingsCredit |-> 0,
      otherCredits |-> << >> ],
    [ childTaxCredit |-> 4000, earnedIncomeCredit |-> 1000,
      educationCredits |-> 2500, retirementSavingsCredit |-> 200,
      otherCredits |-> << Amount(300), Amount(50) >> ] }

\* The returns the calculator is applied to.
SampleReturns ==
  { TaxReturn(y, fs, Income(w, se, x), Deductions(adj, it), cr) :
      y \in TaxYears, fs \in FilingStatus, w \in WageLists,
      se \in SelfEmploymentLists, x \in ExtraIncomes,
      adj \in AdjustmentLists, it \in ItemizedTotals, cr \in CreditSets }
  \cup
  { TaxReturn(UnconfiguredYear, fs,
              Income(<< Wage(60000, 5000) >>, << >>, NoExtraIncome),
              Deductions(<< >>, 0), NoCredits) : fs \in FilingStatus }

\* The returns the running service is asked about.
ServiceReturns ==
  { ScenarioReturn,
    TaxReturn(2024, MARRIED_FILING_JOINTLY,
              Income(<< Wage(410000, 90000) >>, << >>, NoExtraIncome),
              Deductions(<< >>, 0), NoCredits),
    TaxReturn(2023, SINGLE,
              Income(<< Wage(0, 65) >>, << SelfEmployment(460) >>,
                     NoExtraIncome),
              Deductions(<< >>, 0), NoCredits) }

(***************************************************************************)
(* State                                                                   *)
(***************************************************************************)
VARIABLES
  tax_law_configurations, \* the table: tax_year -> row
  configCache,            \* TaxLawService.configCache: taxYear -> configuration
  pc,                     \* where each caller's request stands
  req,                    \* each caller's request
  res,                    \* what the database answered to the request's query
  resp,                   \* what each caller's last request returned
  probe                   \* the calculator step last applied, with its result

vars == << tax_law_configurations, configCache, pc, req, res, resp, probe >>

registry == << tax_law_configurations, configCache >>

callers == << pc, req, res, resp >>

NumClients == 2
Clients == 1 .. NumClients

None == [none |-> TRUE]

\* A call of a calculator step: its arguments and, once it has returned,
\* its result.
Call(op, args) == [op |-> op, args |-> args, returned |-> FALSE, result |-> None]

\* A configuration for 2024 that differs from the seeded one: the standard
\* deduction of single filers raised.
revised2024Configuration ==
  [getTaxYear2024Configuration EXCEPT !.standardDeductions[SINGLE] = 15000]

\* A configuration object whose taxYear is undefined.
withoutTaxYear(config) == [f \in DOMAIN config \ {"taxYear"} |-> config[f]]

\* The configurations an administrator upserts: the two the service seeds,
\* a revision of one, and one without a tax year.
UpsertConfigs ==
  { getTaxYear2024Configuration, getTaxYear2023Configuration,
    revised2024Configuration, withoutTaxYear(getTaxYear2024Configuration) }

\* The requests that begin with getTaxLawConfiguration.
ReadRequests ==
  { [op |-> "getTaxLawConfiguration", taxYear |-> y] : y \in TaxYears }
  \cup { [op |-> "calculateTax", taxReturn |-> r] : r \in ServiceReturns }
  \cup { [op |-> "calculateStandardDeduction", taxYear |-> y,
          filingStatus |-> fs] : y \in TaxYears, fs \in {SINGLE} }
  \cup { [op |-> "calculateItemizedVsStandard", taxYear |-> y,
          filingStatus |-> fs, itemizedDeductions |-> it] :
            y \in TaxYears, fs \in {SINGLE}, it \in {12000, 14600} }

taxYearOf(r) ==
  IF r.op \in {"calculateTax", "optimizeDeductions"}
  THEN r.taxReturn.taxYear ELSE r.taxYear

\* What a read request returns once getTaxLawConfiguration has answered
\* taxLawConfig (null or a configuration).
answer(r, taxLawConfig) ==
  CASE r.op = "getTaxLawConfiguration" -> [value |-> taxLawConfig]
    [] r.op = "calculateTax" -> calculateTax(r.taxReturn, taxLawConfig)
    [] r.op = "calculateStandardDeduction" ->
         [value |-> calculateStandardDeduction(taxLawConfig, r.filingStatus)]
    [] r.op = "calculateItemizedVsStandard" ->
         calculateItemizedVsStandard(
           calculateStandardDeduction(taxLawConfig, r.filingStatus),
           r.itemizedDeductions)

\* The table after initializeSchema, the cache after construction.
Init ==
  /\ tax_law_configurations = (2024 :> schemaSeedRow)
  /\ configCache = emptyMap
  /\ pc = [c \in Clients |-> "idle"]
  /\ req = [c \in Clients |-> None]
  /\ res = [c \in Clients |-> None]
  /\ resp = [c \in Clients |-> None]
  /\ probe = Call("none", None)

(***************************************************************************)
(* TaxLawService.getTaxLawConfiguration and the requests built on it       *)
(***************************************************************************)
\* if (this.configCache.has(taxYear)), always false: the slip of a lookup
\* that never consults the cache.
cacheHasNever(cache, taxYear) == FALSE

\* this.configCache.has(taxYear)
cacheHas(cache, taxYear) == taxYear \in DOMAIN cache

\* Lines 329 to 337: a hit returns the cached configuration; a miss sends
\* the SELECT and suspends.
GetStart(c, r) ==
  /\ pc[c] \in {"idle", "done"}
  /\ req' = [req EXCEPT ![c] = r]
  /\ res' = [res EXCEPT ![c] = None]
  /\ IF cacheHas(configCache, taxYearOf(r))
     THEN /\ pc' = [pc EXCEPT ![c] = "done"]
          /\ resp' = [resp EXCEPT ![c] =
                        answer(r, Some(configCache[taxYearOf(r)]))]
     ELSE /\ pc' = [pc EXCEPT ![c] = "select"]
          /\ resp' = [resp EXCEPT ![c] = None]
  /\ UNCHANGED << registry, probe >>

\* The database runs the SELECT: it answers the rows of that year, or the
\* query fails.
Select(c) ==
  /\ pc[c] = "select"
  /\ pc' = [pc EXCEPT ![c] = "selected"]
  /\ \/ res' = [res EXCEPT ![c] =
                  [ ok |-> TRUE,
                    rows |-> IF taxYearOf(req[c]) \in DOMAIN tax_law_configurations
                             THEN << tax_law_configurations[taxYearOf(req[c])] >>
                             ELSE << >> ]]
     \/ res' = [res EXCEPT ![c] = [ok |-> FALSE]]
  /\ UNCHANGED << registry, req, resp, probe >>

\* The cache after a lookup that answers null, with a fallback entry set
\* for the year: the slip of caching what was not fetched.
cacheAfterNullFallback(cache, taxYear) ==
  put(cache, taxYear, getTaxYear2024Configuration)

\* return null (lines 341 and 365): the cache is left as it was.
cacheAfterNull(cache, taxYear) == cache

\* Lines 339 to 366: no row or a failed query answers null; a row is
\* mapped, cached and answered.
GetResume(c) ==
  /\ pc[c] = "selected"
  /\ req[c].op # "optimizeDeductions"
  /\ pc' = [pc EXCEPT ![c] = "done"]
  /\ IF res[c].ok /\ res[c].rows # << >>
     THEN LET config == configOf(res[c].rows[1])
          IN  /\ configCache' = put(configCache, taxYearOf(req[c]), config)
              /\ resp' = [resp EXCEPT ![c] = answer(req[c], Some(config))]
     ELSE /\ configCache' = cacheAfterNull(configCache, taxYearOf(req[c]))
          /\ resp' = [resp EXCEPT ![c] = answer(req[c], Null)]
  /\ UNCHANGED << tax_law_configurations, req, res, probe >>

(***************************************************************************)
(* TaxLawService.updateTaxLawConfiguration and clearCache                  *)
(***************************************************************************)
\* Lines 370 to 402: the INSERT ... ON CONFLICT DO UPDATE is sent.
UpdateStart(c, config) ==
  /\ pc[c] \in {"idle", "done"}
  /\ pc' = [pc EXCEPT ![c] = "insert"]
  /\ req' = [req EXCEPT ![c] =
               [op |-> "updateTaxLawConfiguration", config |-> config]]
  /\ res' = [res EXCEPT ![c] = None]
  /\ resp' = [resp EXCEPT ![c] = None]
  /\ UNCHANGED << registry, probe >>

\* ON CONFLICT (tax_year) DO NOTHING: the slip of keeping the row there.
upsertRowKeep(table, config) ==
  IF config.taxYear \in DOMAIN table THEN table
  ELSE put(table, config.taxYear, rowOf(config))

\* The row the statement leaves for the year, replacing the one there.
upsertRow(table, config) == put(table, config.taxYear, rowOf(config))

\* tax_year INTEGER NOT NULL: an undefined taxYear is sent as NULL and the
\* statement is refused.
notNullViolation(config) == "taxYear" \notin DOMAIN config

\* The database runs the statement, or the statement fails.
Insert(c) ==
  /\ pc[c] = "insert"
  /\ pc' = [pc EXCEPT ![c] = "inserted"]
  /\ \/ /\ ~notNullViolation(req[c].config)
        /\ tax_law_configurations' =
             upsertRow(tax_law_configurations, req[c].config)
        /\ res' = [res EXCEPT ![c] = [ok |-> TRUE]]
     \/ /\ tax_law_configurations' = tax_law_configurations
        /\ res' = [res EXCEPT ![c] = [ok |-> FALSE]]
  /\ UNCHANGED << configCache, req, resp, probe >>

\* The cache after a statement that succeeded, left as it was: the slip of
\* forgetting this.configCache.set.
cacheAfterUpdateStale(cache, config) == cache

\* this.configCache.set(config.taxYear, config)
cacheAfterUpdate(cache, config) == put(cache, config.taxYear, config)

\* return true in the catch as well: the slip of swallowing the error.
updateReturnTrue(ok) == TRUE

\* return true (line 408) after the statement, return false (line 414) in
\* the catch.
updateReturn(ok) == ok

\* Lines 404 to 415: the cache is updated and true returned, or the error
\* is caught and false returned.
UpdateResume(c) ==
  /\ pc[c] = "inserted"
  /\ pc' = [pc EXCEPT ![c] = "done"]
  /\ resp' = [resp EXCEPT ![c] = [value |-> updateReturn(res[c].ok)]]
  /\ IF res[c].ok
     THEN configCache' = cacheAfterUpdate(configCache, req[c].config)
     ELSE configCache' = configCache
  /\ UNCHANGED << tax_law_configurations, req, res, probe >>

\* The cache after clearCache with the entries kept: the slip of a clear
\* that does nothing.
clearedKeep(cache) == cache

\* this.configCache.clear()
cleared(cache) == emptyMap

\* Lines 448 to 451.
ClearCache(c) ==
  /\ pc[c] \in {"idle", "done"}
  /\ pc' = [pc EXCEPT ![c] = "done"]
  /\ req' = [req EXCEPT ![c] = [op |-> "clearCache"]]
  /\ res' = [res EXCEPT ![c] = None]
  /\ resp' = [resp EXCEPT ![c] = [void |-> TRUE]]
  /\ configCache' = cleared(configCache)
  /\ UNCHANGED << tax_law_configurations, probe >>

\* One caller's next step.
Step(c) ==
  \/ \E r \in ReadRequests : GetStart(c, r)
  \/ Select(c)
  \/ GetResume(c)
  \/ \E config \in UpsertConfigs : UpdateStart(c, config)
  \/ Insert(c)
  \/ UpdateResume(c)
  \/ ClearCache(c)

\* Requests of any number of callers interleave at their awaits.
Next == \E c \in Clients : Step(c)

Spec == Init /\ [][Next]_vars

\* One caller, so each request runs to its end before the next begins.
SeqNext == Step(1)

SpecSeq == Init /\ [][SeqNext]_vars

(***************************************************************************)
(* startServer: the schema, the seeding, then the requests                 *)
(***************************************************************************)
\* The process that runs startServer, and a caller of the running service.
Server == 1
Requester == 2

\* const configurations = [2024, 2023] of initializeDefaultConfigurations
configurations ==
  << getTaxYear2024Configuration, getTaxYear2023Configuration >>

\* How many of the configurations the loop has handed to
\* updateTaxLawConfiguration.
seedIndex ==
  IF req[Server] = None THEN 0
  ELSE CHOOSE i \in DOMAIN configurations :
         configurations[i] = req[Server].config

\* for (const config of configurations) await
\* this.updateTaxLawConfiguration(config): the next iteration begins when
\* the call before it has returned, whatever it returned.
Seed ==
  /\ pc[Server] = (IF seedIndex = 0 THEN "idle" ELSE "done")
  /\ seedIndex < Len(configurations)
  /\ UpdateStart(Server, configurations[seedIndex + 1])

\* app.listen: reached when the loop has ended.
listening ==
  /\ pc[Server] = "done"
  /\ seedIndex = Len(configurations)

\* The requests put to the service once it listens.
BootRequests ==
  { [op |-> "getTaxLawConfiguration", taxYear |-> y] : y \in TaxYears }
  \cup { [op |-> "calculateStandardDeduction", taxYear |-> y,
          filingStatus |-> fs] :
           y \in TaxYears, fs \in {SINGLE, MARRIED_FILING_JOINTLY} }
  \cup { [op |-> "calculateTax", taxReturn |-> r] : r \in ServiceReturns }

BootNext ==
  \/ Seed
  \/ Insert(Server)
  \/ UpdateResume(Server)
  \/ listening /\ \E r \in BootRequests : GetStart(Requester, r)
  \/ Select(Requester)
  \/ GetResume(Requester)
  \/ listening /\ ClearCache(Requester)

SpecBoot == Init /\ [][BootNext]_vars

(***************************************************************************)
(* DeductionOptimizationService.optimizeDeductions                         *)
(***************************************************************************)
MEDICAL_DENTAL == "medical_dental"
STATE_LOCAL_TAXES == "state_local_taxes"
MORTGAGE_INTEREST == "mortgage_interest"
CHARITABLE_CONTRIBUTIONS == "charitable_contributions"
MISCELLANEOUS == "miscellaneous"
OFFICE_EXPENSES == "office_expenses"
VEHICLE == "vehicle"
PROFESSIONAL_SERVICES == "professional_services"

\* deductionAmount, ignoring the rate: the slip of reporting the deduction
\* as the saving.
calculateTaxSavingsWhole(deductionAmount, marginalTaxRate) == deductionAmount

\* deductionAmount * marginalTaxRate, the amount of at most four decimals,
\* the rate in units of 1/10000.
calculateTaxSavings(deductionAmount, marginalTaxRate) ==
  FixMulRate(deductionAmount, marginalTaxRate)

\* itemizedDeductions.filter(d => d.category === category)
\*   .reduce((sum, d) => sum + d.amount, 0)
sumOfCategory(itemizedDeductions, category) ==
  reduce([i \in DOMAIN itemizedDeductions |->
            IF itemizedDeductions[i].category = category
            THEN itemizedDeductions[i].amount ELSE 0])

\* medicalThreshold - currentMedicalDeductions: the slip of leaving out the
\* dollar that takes the expenses past the threshold.
neededAmountGap(medicalThreshold, currentMedicalDeductions) ==
  FixSub(medicalThreshold, FixOfInt(currentMedicalDeductions))

\* const neededAmount = medicalThreshold - currentMedicalDeductions + 1
neededAmount(medicalThreshold, currentMedicalDeductions) ==
  FixAdd(FixSub(medicalThreshold, FixOfInt(currentMedicalDeductions)),
         FixOfInt(1))

\* Each rule answers a list of recommendations; a description is kept as
\* the name of its text, a confidence in hundredths.
analyzeMedicalDeductions(taxReturn) ==
  LET adjustedGrossIncome == taxReturn.calculations.adjustedGrossIncome
      medicalThreshold == FixMulRate(adjustedGrossIncome, 750)
      currentMedicalDeductions ==
        sumOfCategory(taxReturn.deductions.itemizedDeductions, MEDICAL_DENTAL)
      needed == neededAmount(medicalThreshold, currentMedicalDeductions)
  IN  (IF FixLt(FixOfInt(currentMedicalDeductions), medicalThreshold)
       THEN << [ category |-> MEDICAL_DENTAL,
                 description |-> "medical expenses to the threshold",
                 estimatedAmount |-> needed,
                 confidence |-> 80,
                 potentialSavings |->
                   calculateTaxSavings(needed,
                                       taxReturn.calculations.marginalTaxRate) ] >>
       ELSE << >>)
      \o
      (IF FixLt(FixOfInt(50000), adjustedGrossIncome)
       THEN << [ category |-> MEDICAL_DENTAL,
                 description |-> "health insurance premiums",
                 estimatedAmount |-> FixOfInt(6000),
                 confidence |-> 60,
                 potentialSavings |->
                   calculateTaxSavings(FixOfInt(6000),
                                       taxReturn.calculations.marginalTaxRate) ] >>
       ELSE << >>)

analyzeStateLocalTaxDeductions(taxReturn) ==
  LET saltCap == 10000
      currentSALT ==
        sumOfCategory(taxReturn.deductions.itemizedDeductions,
                      STATE_LOCAL_TAXES)
      remainingCapacity == saltCap - currentSALT
  IN  IF currentSALT < saltCap
      THEN << [ category |-> STATE_LOCAL_TAXES,
                description |-> "state and local taxes",
                estimatedAmount |-> FixOfInt(Min(remainingCapacity, 3000)),
                confidence |-> 70,
                potentialSavings |->
                  calculateTaxSavings(FixOfInt(Min(remainingCapacity, 3000)),
                                      taxReturn.calculations.marginalTaxRate) ] >>
      ELSE << >>

analyzeMortgageInterestDeductions(taxReturn) ==
  LET hasMortgageInterest ==
        \E i \in DOMAIN taxReturn.deductions.itemizedDeductions :
          taxReturn.deductions.itemizedDeductions[i].category
            = MORTGAGE_INTEREST
  IN  IF /\ ~hasMortgageInterest
         /\ FixLt(FixOfInt(40000), taxReturn.calculations.adjustedGrossIncome)
      THEN << [ category |-> MORTGAGE_INTEREST,
                description |-> "mortgage interest",
                estimatedAmount |-> FixOfInt(8000),
                confidence |-> 50,
                potentialSavings |->
                  calculateTaxSavings(FixOfInt(8000),
                                      taxReturn.calculations.marginalTaxRate) ] >>
      ELSE << >>

analyzeCharitableDeductions(taxReturn) ==
  LET adjustedGrossIncome == taxReturn.calculations.adjustedGrossIncome
      currentCharitable ==
        sumOfCategory(taxReturn.deductions.itemizedDeductions,
                      CHARITABLE_CONTRIBUTIONS)
      suggestedCharitableAmount ==
        FixMin(FixMulRate(adjustedGrossIncome, 200), FixOfInt(2000))
      additionalAmount ==
        FixSub(suggestedCharitableAmount, FixOfInt(currentCharitable))
  IN  IF FixLt(FixOfInt(currentCharitable), suggestedCharitableAmount)
      THEN << [ category |-> CHARITABLE_CONTRIBUTIONS,
                description |-> "charitable contributions",
                estimatedAmount |-> additionalAmount,
                confidence |-> 40,
                potentialSavings |->
                  calculateTaxSavings(additionalAmount,
                                      taxReturn.calculations.marginalTaxRate) ] >>
      ELSE << >>

analyzeBusinessDeductions(taxReturn) ==
  LET hasSelfEmployment == Len(taxReturn.income.selfEmployment) > 0
      rate == taxReturn.calculations.marginalTaxRate
  IN  IF hasSelfEmployment
      THEN << [ category |-> OFFICE_EXPENSES,
                description |-> "home office expenses",
                estimatedAmount |-> FixOfInt(1200),
                confidence |-> 60,
                potentialSavings |-> calculateTaxSavings(FixOfInt(1200), rate) ],
              [ category |-> VEHICLE,
                description |-> "business use of vehicle",
                estimatedAmount |-> FixOfInt(2000),
                confidence |-> 70,
                potentialSavings |-> calculateTaxSavings(FixOfInt(2000), rate) ],
              [ category |-> PROFESSIONAL_SERVICES,
                description |-> "professional development",
                estimatedAmount |-> FixOfInt(800),
                confidence |-> 50,
                potentialSavings |-> calculateTaxSavings(FixOfInt(800), rate) ] >>
      ELSE << >>

analyzeEducationDeductions(taxReturn) ==
  LET adjustedGrossIncome == taxReturn.calculations.adjustedGrossIncome
      rate == taxReturn.calculations.marginalTaxRate
  IN  (IF FixLt(adjustedGrossIncome, FixOfInt(85000))
       THEN << [ category |-> MISCELLANEOUS,
                 description |-> "student loan interest",
                 estimatedAmount |-> FixOfInt(1500),
                 confidence |-> 40,
                 potentialSavings |-> calculateTaxSavings(FixOfInt(1500), rate) ] >>
       ELSE << >>)
      \o
      (IF FixLt(adjustedGrossIncome, FixOfInt(80000))
       THEN << [ category |-> MISCELLANEOUS,
                 description |-> "tuition and fees",
                 estimatedAmount |-> FixOfInt(4000),
                 confidence |-> 30,
                 potentialSavings |-> calculateTaxSavings(FixOfInt(4000), rate) ] >>
       ELSE << >>)

analyzeRetirementDeductions(taxReturn) ==
  LET adjustedGrossIncome == taxReturn.calculations.adjustedGrossIncome
      rate == taxReturn.calculations.marginalTaxRate
      iraContributionLimit == 6500
  IN  << [ category |-> MISCELLANEOUS,
           description |-> "traditional IRA contribution",
           estimatedAmount |-> FixOfInt(iraContributionLimit),
           confidence |-> 80,
           potentialSavings |->
             calculateTaxSavings(FixOfInt(iraContributionLimit), rate) ] >>
      \o
      (IF FixLt(adjustedGrossIncome, FixOfInt(100000))
       THEN << [ category |-> MISCELLANEOUS,
                 description |-> "HSA contribution",
                 estimatedAmount |-> FixOfInt(4150),
                 confidence |-> 50,
                 potentialSavings |-> calculateTaxSavings(FixOfInt(4150), rate) ] >>
       ELSE << >>)

\* The sign of a.potentialSavings - b.potentialSavings: the slip of sorting
\* lowest first.
compareAscending(a, b) ==
  IF FixLt(a.potentialSavings, b.potentialSavings) THEN -1
  ELSE IF FixLt(b.potentialSavings, a.potentialSavings) THEN 1 ELSE 0

\* The sign of (a, b) => b.potentialSavings - a.potentialSavings.
compare(a, b) ==
  IF FixLt(b.potentialSavings, a.potentialSavings) THEN -1
  ELSE IF FixLt(a.potentialSavings, b.potentialSavings) THEN 1 ELSE 0

\* Array.prototype.sort is stable: x goes behind every element that does
\* not compare after it.
RECURSIVE insertSorted(_, _)
insertSorted(sorted, x) ==
  IF sorted = << >> THEN << x >>
  ELSE IF compare(sorted[Len(sorted)], x) <= 0 THEN Append(sorted, x)
  ELSE Append(insertSorted(SubSeq(sorted, 1, Len(sorted) - 1), x),
              sorted[Len(sorted)])

RECURSIVE sort(_)
sort(xs) ==
  IF xs = << >> THEN << >>
  ELSE insertSorted(sort(SubSeq(xs, 1, Len(xs) - 1)), xs[Len(xs)])

\* The recommendations in the order the rules are evaluated.
pushed(taxReturn) ==
  analyzeMedicalDeductions(taxReturn)
  \o analyzeStateLocalTaxDeductions(taxReturn)
  \o analyzeMortgageInterestDeductions(taxReturn)
  \o analyzeCharitableDeductions(taxReturn)
  \o analyzeBusinessDeductions(taxReturn)
  \o analyzeEducationDeductions(taxReturn)
  \o analyzeRetirementDeductions(taxReturn)

generateDeductionRecommendations(taxReturn) == sort(pushed(taxReturn))

\* recommendations.reduce((sum, rec) => sum + rec.potentialSavings, 0)
RECURSIVE sumOfSavings(_)
sumOfSavings(recommendations) ==
  IF recommendations = << >> THEN FixZero
  ELSE FixAdd(Head(recommendations).potentialSavings,
              sumOfSavings(Tail(recommendations)))

\* optimizeDeductions, both of its lookups of the year having answered
\* taxLawConfig (null or a configuration).
\* taxLawConfig is what getTaxLawConfiguration answers inside
\* calculateItemizedVsStandard (line 44), taxLawConfigAgain what it answers
\* to the calculateStandardDeduction of the result (line 65).
optimizeDeductions(taxReturn, taxLawConfig, taxLawConfigAgain) ==
  LET recommendations == generateDeductionRecommendations(taxReturn)
      standardVsItemized ==
        calculateItemizedVsStandard(
          calculateStandardDeduction(taxLawConfig, taxReturn.filingStatus),
          taxReturn.deductions.totalItemizedDeductions)
  IN  [ success |-> TRUE,
        data |->
          [ recommendations |-> recommendations,
            standardVsItemized |->
              [ useItemized |-> standardVsItemized.useItemized,
                standardAmount |->
                  calculateStandardDeduction(taxLawConfigAgain,
                                             taxReturn.filingStatus),
                itemizedAmount |->
                  taxReturn.deductions.totalItemizedDeductions,
                savings |-> standardVsItemized.savings ],
            potentialSavings |-> sumOfSavings(recommendations) ],
        message |-> << "Deduction optimization completed successfully" >> ]

(***************************************************************************)
(* DeductionOptimizationService.analyzeDeductionStrategy                   *)
(***************************************************************************)
\* calculation.data?.totalTaxLiability || 0
totalTaxLiabilityOr0(calculated) ==
  IF calculated.success THEN calculated.data.totalTaxLiability ELSE FixZero

\* The objects of a call: the caller's return and the deductions object
\* it refers to, each under its name.
objectsOf(taxReturn) ==
  ("taxReturn" :> [taxReturn EXCEPT !.deductions = "taxReturn.deductions"])
  @@ ("taxReturn.deductions" :> taxReturn.deductions)

\* The return an object stands for, its deductions followed.
valueOf(objects, name) ==
  [objects[name] EXCEPT !.deductions = objects[objects[name].deductions]]

\* { ...object }: a new object with the fields of the old one, references
\* included.
spread(objects, new, old) == (new :> objects[old]) @@ objects

\* Line 351 left out: modifiedTaxReturn keeps referring to the caller's
\* deductions object.
copyDeductionsShared(objects) == objects

\* modifiedTaxReturn.deductions = { ...taxReturn.deductions }
copyDeductions(objects) ==
  [ spread(objects, "modifiedTaxReturn.deductions",
           objects["taxReturn"].deductions)
    EXCEPT !["modifiedTaxReturn"].deductions = "modifiedTaxReturn.deductions" ]

\* Lines 350 to 355: the objects once the proposed amounts have been added
\* to modifiedTaxReturn.deductions.totalItemizedDeductions.
objectsAfter(taxReturn, proposedDeductions) ==
  LET additionalItemizedAmount ==
        reduce([i \in DOMAIN proposedDeductions |->
                  proposedDeductions[i].amount])
      copied ==
        copyDeductions(spread(objectsOf(taxReturn), "modifiedTaxReturn",
                              "taxReturn"))
  IN  [ copied EXCEPT
          ![copied["modifiedTaxReturn"].deductions].totalItemizedDeductions =
            @ + additionalItemizedAmount ]

\* The return whose totalItemizedDeductions is raised by the sum of the
\* proposed amounts.
modifiedTaxReturn(taxReturn, proposedDeductions) ==
  valueOf(objectsAfter(taxReturn, proposedDeductions), "modifiedTaxReturn")

\* The caller's return as the call leaves it.
taxReturnAfter(taxReturn, proposedDeductions) ==
  valueOf(objectsAfter(taxReturn, proposedDeductions), "taxReturn")

\* modifiedTaxReturn.deductions.totalItemizedDeductions >= standardDeduction:
\* the slip that recommends itemizing on a tie.
recommendItemizeOnTie(totalItemizedDeductions, standardDeduction) ==
  totalItemizedDeductions >= standardDeduction

\* modifiedTaxReturn.deductions.totalItemizedDeductions > standardDeduction
recommendItemize(totalItemizedDeductions, standardDeduction) ==
  totalItemizedDeductions > standardDeduction

\* newTax - currentTax: the slip of subtracting the wrong way round.
savingsReversed(currentTax, newTax) == FixSub(newTax, currentTax)

\* const savings = currentTax - newTax
savingsOf(currentTax, newTax) == FixSub(currentTax, newTax)

\* analyzeDeductionStrategy, each of its three lookups of the year having
\* answered taxLawConfig (null or a configuration).
analyzeDeductionStrategy(taxReturn, proposedDeductions, taxLawConfig) ==
  LET currentTax == totalTaxLiabilityOr0(calculateTax(taxReturn, taxLawConfig))
      modified == modifiedTaxReturn(taxReturn, proposedDeductions)
      newTax == totalTaxLiabilityOr0(calculateTax(modified, taxLawConfig))
      standardDeduction ==
        calculateStandardDeduction(taxLawConfig, taxReturn.filingStatus)
  IN  [ currentTax |-> currentTax,
        newTax |-> newTax,
        savings |-> savingsOf(currentTax, newTax),
        recommendation |->
          IF recommendItemize(modified.deductions.totalItemizedDeductions,
                              standardDeduction)
          THEN "itemize" ELSE "standard" ]

(***************************************************************************)
(* TaxReturnModel: the rows of one return, and TaxController.calculateTax  *)
(***************************************************************************)
\* A DECIMAL(12,2) column keeps an amount rounded to cents.
DECIMAL_12_2(x) == roundToTwoDec(x)

\* A DECIMAL(5,4) column keeps a rate to its fourth decimal; a rate is
\* written here as its number of ten-thousandths.
DECIMAL_5_4(r) == r

\* The rows createTaxReturn inserts for a return (lines 419 to 444).
createTaxReturn ==
  [ tax_return_income |->
      [total_income |-> FixZero, adjusted_gross_income |-> FixZero],
    tax_return_credits |-> [total_credits |-> FixZero],
    tax_calculations |->
      [ gross_income |-> FixZero,
        adjusted_gross_income |-> FixZero,
        taxable_income |-> FixZero,
        federal_tax_before_credits |-> FixZero,
        total_credits |-> FixZero,
        federal_tax_after_credits |-> FixZero,
        self_employment_tax |-> FixZero,
        total_tax_liability |-> FixZero,
        total_withholding |-> FixZero,
        estimated_payments |-> FixZero,
        refund_amount |-> FixZero,
        amount_owed |-> FixZero,
        effective_tax_rate |-> 0,
        marginal_tax_rate |-> 0 ] ]

\* UPDATE tax_calculations SET ... WHERE tax_return_id = id
updateTaxCalculations(rows, calculations) ==
  [ rows EXCEPT !.tax_calculations =
      [ gross_income |-> DECIMAL_12_2(calculations.grossIncome),
        adjusted_gross_income |-> DECIMAL_12_2(calculations.adjustedGrossIncome),
        taxable_income |-> DECIMAL_12_2(calculations.taxableIncome),
        federal_tax_before_credits |-> DECIMAL_12_2(calculations.federalTaxBeforeCredits),
        total_credits |-> DECIMAL_12_2(calculations.totalCredits),
        federal_tax_after_credits |-> DECIMAL_12_2(calculations.federalTaxAfterCredits),
        self_employment_tax |-> DECIMAL_12_2(calculations.selfEmploymentTax),
        total_tax_liability |-> DECIMAL_12_2(calculations.totalTaxLiability),
        total_withholding |-> DECIMAL_12_2(calculations.totalWithholding),
        estimated_payments |-> DECIMAL_12_2(calculations.estimatedPayments),
        refund_amount |-> DECIMAL_12_2(calculations.refundAmount),
        amount_owed |-> DECIMAL_12_2(calculations.amountOwed),
        effective_tax_rate |-> DECIMAL_5_4(calculations.effectiveTaxRate),
        marginal_tax_rate |-> DECIMAL_5_4(calculations.marginalTaxRate) ] ]

\* The row of getTaxReturnById's SELECT: total_income and
\* adjusted_gross_income of tax_return_income (tri), total_credits of
\* tax_return_credits (trc), and twelve columns of tax_calculations (tc).
selectedRow(rows) ==
  [ total_income |-> rows.tax_return_income.total_income,
    adjusted_gross_income |->
      rows.tax_return_income.adjusted_gross_income,
    total_credits |-> rows.tax_return_credits.total_credits,
    gross_income |-> rows.tax_calculations.gross_income,
    taxable_income |-> rows.tax_calculations.taxable_income,
    federal_tax_before_credits |-> rows.tax_calculations.federal_tax_before_credits,
    federal_tax_after_credits |-> rows.tax_calculations.federal_tax_after_credits,
    self_employment_tax |-> rows.tax_calculations.self_employment_tax,
    total_tax_liability |-> rows.tax_calculations.total_tax_liability,
    total_withholding |-> rows.tax_calculations.total_withholding,
    estimated_payments |-> rows.tax_calculations.estimated_payments,
    refund_amount |-> rows.tax_calculations.refund_amount,
    amount_owed |-> rows.tax_calculations.amount_owed,
    effective_tax_rate |-> rows.tax_calculations.effective_tax_rate,
    marginal_tax_rate |-> rows.tax_calculations.marginal_tax_rate ]

\* calculations: { grossIncome: parseFloat(row.gross_income) || 0, ... }
calculationsOf(row) ==
  [ grossIncome |-> row.gross_income,
    adjustedGrossIncome |-> row.adjusted_gross_income,
    taxableIncome |-> row.taxable_income,
    federalTaxBeforeCredits |-> row.federal_tax_before_credits,
    totalCredits |-> row.total_credits,
    federalTaxAfterCredits |-> row.federal_tax_after_credits,
    selfEmploymentTax |-> row.self_employment_tax,
    totalTaxLiability |-> row.total_tax_liability,
    totalWithholding |-> row.total_withholding,
    estimatedPayments |-> row.estimated_payments,
    refundAmount |-> row.refund_amount,
    amountOwed |-> row.amount_owed,
    effectiveTaxRate |-> row.effective_tax_rate,
    marginalTaxRate |-> row.marginal_tax_rate ]

\* The return getTaxReturnById answers: the income, deductions and credits
\* as loaded, with the calculations of the selected row.
getTaxReturnById(taxReturn, rows) ==
  [taxReturn EXCEPT !.calculations = calculationsOf(selectedRow(rows))]

\* POST /tax/returns/:id/calculate: the return is loaded and calculated,
\* and a successful result is stored; what the handler answers and the
\* rows it leaves.
calculateTaxHandler(taxReturn, rows, taxLawConfig) ==
  LET result == calculateTax(getTaxReturnById(taxReturn, rows), taxLawConfig)
  IN  [ response |-> result,
        rows |-> IF result.success
                 THEN updateTaxCalculations(rows, result.data)
                 ELSE rows ]

(***************************************************************************)
(* The calculator applied to sampled inputs, one call at a time, on the    *)
(* registry as initializeDefaultConfigurations leaves it                   *)
(***************************************************************************)
BoundaryMargin == 2
MaxPhaseoutSteps == 41

\* getTaxLawConfiguration run to its end with no other request in between
\* and the database answering: what it returns and the cache it leaves.
getTaxLawConfiguration(table, cache, taxYear) ==
  IF cacheHas(cache, taxYear)
  THEN [config |-> Some(cache[taxYear]), cache |-> cache]
  ELSE IF taxYear \in DOMAIN table
  THEN [ config |-> Some(configOf(table[taxYear])),
         cache |-> put(cache, taxYear, configOf(table[taxYear])) ]
  ELSE [config |-> Null, cache |-> cache]

\* Lines 454 to 463, every statement succeeding.
initializeDefaultConfigurations ==
  [ table |-> upsertRow(upsertRow((2024 :> schemaSeedRow),
                                  getTaxYear2024Configuration),
                        getTaxYear2023Configuration),
    cache |-> cacheAfterUpdate(cacheAfterUpdate(emptyMap,
                                                getTaxYear2024Configuration),
                               getTaxYear2023Configuration) ]

\* Taxable incomes at, just below and just above every bracket bound, and
\* a few in between.
BracketIncomes(brackets) ==
  { x \in { b + j : b \in { brackets[i].min : i \in DOMAIN brackets }
                        \cup { brackets[i].max : i \in DOMAIN brackets },
                    j \in -BoundaryMargin .. BoundaryMargin } : x >= 0 }
  \cup {5000, 45400, 150000, 1000000}

\* Adjusted gross incomes around the threshold and around every further
\* thousand above it.
PhaseoutIncomes(threshold) ==
  { threshold + k * PhaseoutStep + j :
      k \in 0 .. MaxPhaseoutSteps, j \in -1 .. 1 }
  \cup {0, threshold - 50000}

BaseCredits == {0, 500, 2000, 4000}

\* Net profits around the exemption, the scenario's, and around the profit
\* whose 92.35 percent reaches the wage base.
NetProfits ==
  { SeExemptProfit + j : j \in -BoundaryMargin .. BoundaryMargin }
  \cup {-5000, 0, 460, 729, 10000, 173000, 174000, 182000, 183000, 200000}

ItemizedSamples(standardDeduction) ==
  { standardDeduction + j : j \in -BoundaryMargin .. BoundaryMargin }
  \cup {0, 12000, 40000}

seeded(taxYear) == initializeDefaultConfigurations.cache[taxYear]

\* Proposed deductions: none, one, and two that bring an itemized total of
\* 0 or 12000 up to a standard deduction of 14600 or past it.
ProposedDeductionLists ==
  { << >>,
    << [category |-> "charitable_contributions", amount |-> 2600] >>,
    << [category |-> "mortgage_interest", amount |-> 10000],
       [category |-> "state_local_taxes", amount |-> 4600] >>,
    << [category |-> "mortgage_interest", amount |-> 30000] >>,
    << [category |-> "miscellaneous", amount |-> -5000] >> }

\* An itemized deduction of a return.
ItemizedDeduction(category, amount) == [category |-> category, amount |-> amount]

ItemizedDeductionLists ==
  { << >>,
    << ItemizedDeduction(MEDICAL_DENTAL, 5000) >>,
    << ItemizedDeduction(CHARITABLE_CONTRIBUTIONS, 600) >>,
    << ItemizedDeduction(STATE_LOCAL_TAXES, 8000),
       ItemizedDeduction(MORTGAGE_INTEREST, 9000) >>,
    << ItemizedDeduction(STATE_LOCAL_TAXES, 7000),
       ItemizedDeduction(CHARITABLE_CONTRIBUTIONS, 2500),
       ItemizedDeduction(MEDICAL_DENTAL, 3000),
       ItemizedDeduction(STATE_LOCAL_TAXES, 5000) >> }

\* The calculations of a return as createTaxReturn stores them: all 0.
noCalculations ==
  [ grossIncome |-> FixZero, adjustedGrossIncome |-> FixZero,
    taxableIncome |-> FixZero, federalTaxBeforeCredits |-> FixZero,
    totalCredits |-> FixZero, federalTaxAfterCredits |-> FixZero,
    selfEmploymentTax |-> FixZero, totalTaxLiability |-> FixZero,
    totalWithholding |-> FixZero, estimatedPayments |-> FixZero,
    refundAmount |-> FixZero, amountOwed |-> FixZero,
    effectiveTaxRate |-> 0, marginalTaxRate |-> 0 ]

\* A return as the advisor reads it: with its itemized deductions, their
\* total, and the calculations stored on it.
StoredReturn(taxReturn, itemizedDeductions, calculations) ==
  [ taxYear |-> taxReturn.taxYear,
    filingStatus |-> taxReturn.filingStatus,
    income |-> taxReturn.income,
    deductions |->
      [ adjustments |-> taxReturn.deductions.adjustments,
        itemizedDeductions |-> itemizedDeductions,
        totalItemizedDeductions |->
          reduce([i \in DOMAIN itemizedDeductions |->
                    itemizedDeductions[i].amount]) ],
    credits |-> taxReturn.credits,
    calculations |-> calculations ]

\* Returns as getDeductionData loads them: the itemized entries from one
\* table, the total-itemized figure from another, whatever the entries sum
\* to.
EntryReturns ==
  { [ TaxReturn(y, fs, Income(w, << >>, NoExtraIncome),
                Deductions(adj, it), NoCredits)
      EXCEPT !.deductions =
        [ adjustments |-> adj, itemizedDeductions |-> ds,
          totalItemizedDeductions |-> it ] ] :
      y \in TaxYears, fs \in {SINGLE, MARRIED_FILING_JOINTLY},
      w \in {<< >>, << Wage(60000, 5000) >>},
      adj \in {<< >>, << Amount(2000) >>},
      ds \in ItemizedDeductionLists, it \in ItemizedTotals }

\* The returns POST calculate is asked about, as getTaxReturnById loads
\* them: wages, no other income, no adjustments.
PersistedReturns ==
  { StoredReturn(TaxReturn(y, fs, Income(w, << >>, NoExtraIncome),
                           Deductions(<< >>, 0), NoCredits),
                 ds, noCalculations) :
      y \in TaxYears \cup {UnconfiguredYear}, fs \in FilingStatus,
      w \in WageLists,
      ds \in { << >>,
               << ItemizedDeduction(STATE_LOCAL_TAXES, 8000),
                  ItemizedDeduction(MORTGAGE_INTEREST, 9000) >> } }

\* The rows of such a return: as created, or as an earlier calculation of
\* the return without its wages left them.
PersistedRows(taxReturn) ==
  { createTaxReturn }
  \cup (IF taxReturn.taxYear \in TaxYears
        THEN { updateTaxCalculations(
                 createTaxReturn,
                 calculation([taxReturn EXCEPT !.income.wages = << >>],
                             seeded(taxReturn.taxYear))) }
        ELSE { })

\* Wages around the incomes the rules compare with.
AdvisorWages ==
  { 0, 40000, 40001, 50000, 50001, 60000, 79999, 80000, 84999, 85000,
    99999, 100000, 410000 }

\* The returns optimizeDeductions is asked about: freshly created (no
\* calculations stored), calculated as they are, and with the calculations
\* of the return before its wages were added.
OptimizeReturns ==
  UNION
    { LET withWages ==
            TaxReturn(y, fs, Income(<< Wage(w, 0) >>, se, NoExtraIncome),
                      Deductions(<< >>, 0), NoCredits)
          before ==
            TaxReturn(y, fs, Income(<< >>, se, NoExtraIncome),
                      Deductions(<< >>, 0), NoCredits)
      IN  { StoredReturn(withWages, ds, calculations) :
              calculations \in
                { noCalculations,
                  calculation(StoredReturn(withWages, ds, noCalculations),
                              seeded(y)),
                  calculation(StoredReturn(before, ds, noCalculations),
                              seeded(y)) } } :
      y \in TaxYears, fs \in {SINGLE, MARRIED_FILING_JOINTLY},
      w \in AdvisorWages, ds \in ItemizedDeductionLists,
      se \in {<< >>, << SelfEmployment(6000), SelfEmployment(4000) >>} }

\* The returns analyzeDeductionStrategy is asked about.
StrategyReturns ==
  { TaxReturn(y, fs, Income(w, se, NoExtraIncome), Deductions(<< >>, it),
              NoCredits) :
      y \in TaxYears \cup {UnconfiguredYear}, fs \in FilingStatus,
      w \in {<< >>, << Wage(60000, 5000) >>, << Wage(410000, 90000) >>},
      se \in {<< >>, << SelfEmployment(6000), SelfEmployment(4000) >>},
      it \in ItemizedTotals }

Calls ==
  { Call("calculateTax", [taxReturn |-> r]) :
      r \in SampleReturns \cup EntryReturns }
  \cup UNION { { Call(op, [taxYear |-> y, filingStatus |-> fs,
                           taxableIncome |-> x]) :
                   x \in BracketIncomes(seeded(y).taxBrackets[fs]),
                   op \in {"calculateFederalTax", "calculateMarginalTaxRate"} } :
               y \in TaxYears, fs \in FilingStatus }
  \cup UNION { { Call("calculateChildTaxCredit",
                      [taxYear |-> y, filingStatus |-> fs, baseCredit |-> b,
                       adjustedGrossIncome |-> agi]) :
                   b \in BaseCredits,
                   agi \in PhaseoutIncomes(
                             seeded(y).childTaxCreditPhaseoutThreshold[fs]) } :
               y \in TaxYears, fs \in FilingStatus }
  \cup { Call("calculateStandardDeduction",
              [taxYear |-> y, filingStatus |-> fs]) :
           y \in TaxYears \cup {UnconfiguredYear}, fs \in FilingStatus }
  \cup { Call("optimizeDeductions", [taxReturn |-> r]) : r \in OptimizeReturns }
  \cup UNION { { Call("calculateThenReload", [taxReturn |-> r, rows |-> rows]) :
                   rows \in PersistedRows(r) } : r \in PersistedReturns }
  \cup { Call("analyzeDeductionStrategy",
              [taxReturn |-> r, proposedDeductions |-> ds]) :
           r \in StrategyReturns, ds \in ProposedDeductionLists }
  \cup { Call("analyzeDeductionStrategyTwice",
              [taxReturn |-> r, proposedDeductions |-> ds]) :
           r \in StrategyReturns, ds \in ProposedDeductionLists }
  \cup { Call("calculateSelfEmploymentTax", [taxYear |-> y, netProfit |-> p]) :
           y \in TaxYears, p \in NetProfits }
  \cup UNION { { Call("calculateItemizedVsStandard",
                      [taxYear |-> y, filingStatus |-> fs,
                       itemizedDeductions |-> it]) :
                   it \in ItemizedSamples(
                            calculateStandardDeduction(
                              IF y \in TaxYears THEN Some(seeded(y)) ELSE Null,
                              fs)) } :
               y \in TaxYears \cup {UnconfiguredYear}, fs \in FilingStatus }

CalcInit ==
  /\ tax_law_configurations = initializeDefaultConfigurations.table
  /\ configCache = initializeDefaultConfigurations.cache
  /\ pc = [c \in Clients |-> "idle"]
  /\ req = [c \in Clients |-> None]
  /\ res = [c \in Clients |-> None]
  /\ resp = [c \in Clients |-> None]
  /\ probe \in Calls

\* The call pending in probe returns result.
Return(op, result) ==
  /\ probe.op = op
  /\ ~probe.returned
  /\ probe' = [probe EXCEPT !.returned = TRUE, !.result = result]

ApplyCalculateTax ==
  /\ probe.op = "calculateTax"
  /\ LET got == getTaxLawConfiguration(tax_law_configurations, configCache,
                                       probe.args.taxReturn.taxYear)
     IN  /\ Return("calculateTax",
                   calculateTax(probe.args.taxReturn, got.config))
         /\ configCache' = got.cache
  /\ UNCHANGED << tax_law_configurations, callers >>

ApplyCalculateFederalTax ==
  /\ probe.op = "calculateFederalTax"
  /\ Return("calculateFederalTax",
            calculateFederalTax(probe.args.taxableIncome,
                                configCache[probe.args.taxYear],
                                probe.args.filingStatus))
  /\ UNCHANGED << registry, callers >>

ApplyCalculateMarginalTaxRate ==
  /\ probe.op = "calculateMarginalTaxRate"
  /\ Return("calculateMarginalTaxRate",
            calculateMarginalTaxRate(probe.args.taxableIncome,
                                     configCache[probe.args.taxYear],
                                     probe.args.filingStatus))
  /\ UNCHANGED << registry, callers >>

ApplyCalculateChildTaxCredit ==
  /\ probe.op = "calculateChildTaxCredit"
  /\ Return("calculateChildTaxCredit",
            calculateChildTaxCredit(probe.args.baseCredit,
                                    probe.args.adjustedGrossIncome,
                                    configCache[probe.args.taxYear],
                                    probe.args.filingStatus))
  /\ UNCHANGED << registry, callers >>

\* The result carries the parts the total is the sum of.
ApplyCalculateSelfEmploymentTax ==
  /\ probe.op = "calculateSelfEmploymentTax"
  /\ LET p == probe.args.netProfit
         config == configCache[probe.args.taxYear]
     IN  Return("calculateSelfEmploymentTax",
                [ total |->
                    calculateSelfEmploymentTax(
                      Income(<< >>, << SelfEmployment(p) >>, NoExtraIncome),
                      config),
                  parts |-> IF seExempt(p) THEN None
                            ELSE selfEmploymentTaxParts(p, config) ])
  /\ UNCHANGED << registry, callers >>

ApplyCalculateItemizedVsStandard ==
  /\ probe.op = "calculateItemizedVsStandard"
  /\ LET got == getTaxLawConfiguration(tax_law_configurations, configCache,
                                       probe.args.taxYear)
     IN  /\ Return("calculateItemizedVsStandard",
                   calculateItemizedVsStandard(
                     calculateStandardDeduction(got.config,
                                                probe.args.filingStatus),
                     probe.args.itemizedDeductions))
         /\ configCache' = got.cache
  /\ UNCHANGED << tax_law_configurations, callers >>

ApplyCalculateStandardDeduction ==
  /\ probe.op = "calculateStandardDeduction"
  /\ LET got == getTaxLawConfiguration(tax_law_configurations, configCache,
                                       probe.args.taxYear)
     IN  /\ Return("calculateStandardDeduction",
                   calculateStandardDeduction(got.config,
                                              probe.args.filingStatus))
         /\ configCache' = got.cache
  /\ UNCHANGED << tax_law_configurations, callers >>

ApplyAnalyzeDeductionStrategy ==
  /\ probe.op = "analyzeDeductionStrategy"
  /\ LET got == getTaxLawConfiguration(tax_law_configurations, configCache,
                                       probe.args.taxReturn.taxYear)
     IN  /\ Return("analyzeDeductionStrategy",
                   analyzeDeductionStrategy(probe.args.taxReturn,
                                            probe.args.proposedDeductions,
                                            got.config))
         /\ configCache' = got.cache
  /\ UNCHANGED << tax_law_configurations, callers >>

\* With no other request in between, the second lookup answers what the
\* first did: the cached configuration, or null again.
ApplyOptimizeDeductions ==
  /\ probe.op = "optimizeDeductions"
  /\ LET got == getTaxLawConfiguration(tax_law_configurations, configCache,
                                       probe.args.taxReturn.taxYear)
     IN  /\ Return("optimizeDeductions",
                   optimizeDeductions(probe.args.taxReturn, got.config,
                                      got.config))
         /\ configCache' = got.cache
  /\ UNCHANGED << tax_law_configurations, callers >>

\* analyzeDeductionStrategy called twice on the same return object with
\* the same proposed deductions.
ApplyAnalyzeDeductionStrategyTwice ==
  /\ probe.op = "analyzeDeductionStrategyTwice"
  /\ LET got == getTaxLawConfiguration(tax_law_configurations, configCache,
                                       probe.args.taxReturn.taxYear)
         after == taxReturnAfter(probe.args.taxReturn,
                                 probe.args.proposedDeductions)
     IN  /\ Return("analyzeDeductionStrategyTwice",
                   [ first |->
                       analyzeDeductionStrategy(probe.args.taxReturn,
                                                probe.args.proposedDeductions,
                                                got.config),
                     taxReturn |-> after,
                     second |->
                       analyzeDeductionStrategy(after,
                                                probe.args.proposedDeductions,
                                                got.config) ])
         /\ configCache' = got.cache
  /\ UNCHANGED << tax_law_configurations, callers >>

\* POST calculate on a return, then getTaxReturnById of it.
ApplyCalculateThenReload ==
  /\ probe.op = "calculateThenReload"
  /\ LET got == getTaxLawConfiguration(tax_law_configurations, configCache,
                                       probe.args.taxReturn.taxYear)
         handled == calculateTaxHandler(probe.args.taxReturn, probe.args.rows,
                                        got.config)
     IN  /\ Return("calculateThenReload",
                   [ response |-> handled.response,
                     rows |-> handled.rows,
                     reloaded |-> getTaxReturnById(probe.args.taxReturn,
                                                   handled.rows) ])
         /\ configCache' = got.cache
  /\ UNCHANGED << tax_law_configurations, callers >>

CalcNext ==
  \/ ApplyAnalyzeDeductionStrategyTwice
  \/ ApplyCalculateThenReload
  \/ ApplyCalculateTax
  \/ ApplyCalculateFederalTax
  \/ ApplyCalculateMarginalTaxRate
  \/ ApplyCalculateChildTaxCredit
  \/ ApplyCalculateSelfEmploymentTax
  \/ ApplyCalculateItemizedVsStandard
  \/ ApplyCalculateStandardDeduction
  \/ ApplyAnalyzeDeductionStrategy
  \/ ApplyOptimizeDeductions

SpecCalc == CalcInit /\ [][CalcNext]_vars

(***************************************************************************)
(* optimizeDeductions on the running registry: its two lookups of the      *)
(* configuration, among upserts and clearCache of other callers            *)
(***************************************************************************)
\* The returns the advisor is asked about while the registry changes: a
\* 2024 and a 2023 single filer with itemized totals of 17000 and 600.
AdvisedReturns ==
  { StoredReturn(TaxReturn(y, SINGLE,
                           Income(<< Wage(60000, 5000) >>, << >>,
                                  NoExtraIncome),
                           Deductions(<< >>, 0), NoCredits),
                 ds, noCalculations) :
      y \in TaxYears,
      ds \in { << ItemizedDeduction(CHARITABLE_CONTRIBUTIONS, 600) >>,
               << ItemizedDeduction(STATE_LOCAL_TAXES, 8000),
                  ItemizedDeduction(MORTGAGE_INTEREST, 9000) >> } }

\* Lines 39 to 47: the recommendations are generated and the first
\* getTaxLawConfiguration begins. On a hit nothing suspends up to the
\* return, so the second lookup (line 65) reads the same entry.
OptimizeStart(c, r) ==
  /\ pc[c] \in {"idle", "done"}
  /\ req' = [req EXCEPT ![c] = [op |-> "optimizeDeductions", taxReturn |-> r]]
  /\ res' = [res EXCEPT ![c] = None]
  /\ IF cacheHas(configCache, r.taxYear)
     THEN /\ pc' = [pc EXCEPT ![c] = "done"]
          /\ resp' = [resp EXCEPT ![c] =
                        optimizeDeductions(r, Some(configCache[r.taxYear]),
                                           Some(configCache[r.taxYear]))]
     ELSE /\ pc' = [pc EXCEPT ![c] = "select"]
          /\ resp' = [resp EXCEPT ![c] = None]
  /\ UNCHANGED << registry, probe >>

\* The first lookup resumes. A row is cached and the second lookup hits the
\* entry. On null (no row, or a failed query) the comparison is made with a
\* standard deduction of 0 and the second lookup begins: a hit if an upsert
\* has set the entry meanwhile, else another SELECT.
OptimizeResume(c) ==
  /\ pc[c] = "selected"
  /\ req[c].op = "optimizeDeductions"
  /\ LET r == req[c].taxReturn
     IN  IF res[c].ok /\ res[c].rows # << >>
         THEN LET config == configOf(res[c].rows[1])
              IN  /\ configCache' = put(configCache, r.taxYear, config)
                  /\ pc' = [pc EXCEPT ![c] = "done"]
                  /\ resp' = [resp EXCEPT ![c] =
                                optimizeDeductions(r, Some(config),
                                                   Some(config))]
         ELSE /\ configCache' = configCache
              /\ IF cacheHas(configCache, r.taxYear)
                 THEN /\ pc' = [pc EXCEPT ![c] = "done"]
                      /\ resp' = [resp EXCEPT ![c] =
                                    optimizeDeductions(
                                      r, Null, Some(configCache[r.taxYear]))]
                 ELSE /\ pc' = [pc EXCEPT ![c] = "selectAgain"]
                      /\ resp' = resp
  /\ UNCHANGED << tax_law_configurations, req, res, probe >>

\* The database runs the second lookup's SELECT, or the query fails.
SelectAgain(c) ==
  /\ pc[c] = "selectAgain"
  /\ pc' = [pc EXCEPT ![c] = "selectedAgain"]
  /\ \/ res' = [res EXCEPT ![c] =
                  [ ok |-> TRUE,
                    rows |-> IF taxYearOf(req[c]) \in DOMAIN tax_law_configurations
                             THEN << tax_law_configurations[taxYearOf(req[c])] >>
                             ELSE << >> ]]
     \/ res' = [res EXCEPT ![c] = [ok |-> FALSE]]
  /\ UNCHANGED << registry, req, resp, probe >>

\* The second lookup resumes and the result is returned.
OptimizeResumeAgain(c) ==
  /\ pc[c] = "selectedAgain"
  /\ pc' = [pc EXCEPT ![c] = "done"]
  /\ LET r == req[c].taxReturn
     IN  IF res[c].ok /\ res[c].rows # << >>
         THEN LET config == configOf(res[c].rows[1])
              IN  /\ configCache' = put(configCache, r.taxYear, config)
                  /\ resp' = [resp EXCEPT ![c] =
                                optimizeDeductions(r, Null, Some(config))]
         ELSE /\ configCache' = configCache
              /\ resp' = [resp EXCEPT ![c] = optimizeDeductions(r, Null, Null)]
  /\ UNCHANGED << tax_law_configurations, req, res, probe >>

\* The configurations upserted while the advisor runs.
AdviseConfigs == {getTaxYear2023Configuration, revised2024Configuration}

AdviseStep(c) ==
  \/ \E r \in AdvisedReturns : OptimizeStart(c, r)
  \/ Select(c)
  \/ OptimizeResume(c)
  \/ SelectAgain(c)
  \/ OptimizeResumeAgain(c)
  \/ \E config \in AdviseConfigs : UpdateStart(c, config)
  \/ Insert(c)
  \/ UpdateResume(c)
  \/ ClearCache(c)

AdviseNext == \E c \in Clients : AdviseStep(c)

SpecAdvise == Init /\ [][AdviseNext]_vars

(***************************************************************************)
(* Properties of the calculator (under SpecCalc)                           *)
(***************************************************************************)
\* d dollars and c cents.
Money(d, c) == [d |-> d, f |-> c * 10^6]

Returned(op) == probe.op = op /\ probe.returned

\* C1: every calculation calculateTax returns has refundAmount >= 0 and
\* amountOwed >= 0, and never both positive, whatever the withholding and
\* the liability are, the final rounding included.
C1_RefundAndOwedExclusive ==
  (Returned("calculateTax") /\ probe.result.success) =>
    LET data == probe.result.data
    IN  /\ FixLe(FixZero, data.refundAmount)
        /\ FixLe(FixZero, data.amountOwed)
        /\ ~(FixIsPos(data.refundAmount) /\ FixIsPos(data.amountOwed))

\* A calculation with a positive liability and a positive refund.
C1_Witness ==
  /\ Returned("calculateTax")
  /\ probe.result.success
  /\ FixIsPos(probe.result.data.totalTaxLiability)
  /\ FixIsPos(probe.result.data.refundAmount)

\* C2: the single filer of 2024 with wages 60000 and 5000 withheld gets
\* AGI 60000, taxable income 45400, tax before credits 5295.50, 295.50 owed
\* and no refund.
C2_Scenario ==
  (Returned("calculateTax") /\ probe.args.taxReturn = ScenarioReturn) =>
    /\ probe.result.success
    /\ probe.result.data.adjustedGrossIncome = Money(60000, 0)
    /\ probe.result.data.taxableIncome = Money(45400, 0)
    /\ probe.result.data.federalTaxBeforeCredits = Money(5295, 50)
    /\ probe.result.data.amountOwed = Money(295, 50)
    /\ probe.result.data.refundAmount = Money(0, 0)

C2_Witness == Returned("calculateTax") /\ probe.args.taxReturn = ScenarioReturn

\* Contiguous from 0, ascending, rates not decreasing.
WellFormedBrackets(brackets) ==
  /\ brackets # << >>
  /\ brackets[1].min = 0
  /\ \A i \in DOMAIN brackets : brackets[i].min < brackets[i].max
  /\ \A i \in 1 .. Len(brackets) - 1 :
       /\ brackets[i].max = brackets[i + 1].min
       /\ brackets[i].rate <= brackets[i + 1].rate

\* C3: over well-formed brackets the federal tax does not decrease with the
\* taxable income, and it is 0 on an income of 0.
C3_FederalTaxMonotone ==
  Returned("calculateFederalTax") =>
    LET config == seeded(probe.args.taxYear)
        fs == probe.args.filingStatus
        brackets == config.taxBrackets[fs]
    IN  WellFormedBrackets(brackets) =>
          /\ \A x \in BracketIncomes(brackets) :
               x <= probe.args.taxableIncome =>
                 FixLe(calculateFederalTax(x, config, fs), probe.result)
          /\ probe.args.taxableIncome = 0 => probe.result = FixZero

\* The tax on an income in the third bracket or above.
C3_Witness ==
  /\ Returned("calculateFederalTax")
  /\ probe.args.taxableIncome > 44725
  /\ FixIsPos(probe.result)

\* C4: the marginal rate is the rate of the one bracket whose [min, max)
\* holds the income, so the upper bracket's at a boundary, and the top
\* bracket's rate when the income is beyond every max.
C4_MarginalRateOfOneBracket ==
  Returned("calculateMarginalTaxRate") =>
    LET brackets ==
          seeded(probe.args.taxYear).taxBrackets[probe.args.filingStatus]
        x == probe.args.taxableIncome
        holding == { i \in DOMAIN brackets :
                       brackets[i].min <= x /\ x < brackets[i].max }
    IN  /\ Cardinality(holding) <= 1
        /\ \A i \in holding : probe.result = brackets[i].rate
        /\ \A i \in 2 .. Len(brackets) :
             x = brackets[i].min => probe.result = brackets[i].rate
        /\ holding = {} =>
             /\ x >= brackets[Len(brackets)].max
             /\ probe.result = brackets[Len(brackets)].rate

\* An income exactly on the boundary of two brackets.
C4_Witness ==
  /\ Returned("calculateMarginalTaxRate")
  /\ probe.args.taxableIncome = 11000
  /\ probe.args.filingStatus = SINGLE

\* The least n with n * 1000 >= excess, for an excess above 0.
ThousandsStarted(excess) ==
  CHOOSE n \in 1 .. MaxPhaseoutSteps + 2 :
    n * 1000 >= excess /\ (n - 1) * 1000 < excess

\* C5: the child credit is the base amount up to the threshold, and above
\* it the base less 50 per thousand of excess begun, not below 0; so the
\* full base at the threshold, 50 less one dollar above it, and 1500 for
\* married filing jointly with AGI 410000 and base 2000.
C5_ChildCreditPhaseout ==
  Returned("calculateChildTaxCredit") =>
    LET b == probe.args.baseCredit
        agi == probe.args.adjustedGrossIncome
        t == seeded(probe.args.taxYear)
               .childTaxCreditPhaseoutThreshold[probe.args.filingStatus]
    IN  /\ agi <= t => probe.result = b
        /\ agi > t =>
             probe.result = Max(0, b - ThousandsStarted(agi - t) * 50)
        /\ (agi = t + 1 /\ b >= 50) => probe.result = b - 50
        /\ ( /\ probe.args.filingStatus = MARRIED_FILING_JOINTLY
             /\ agi = 410000 /\ b = 2000 ) => probe.result = 1500

\* One dollar above the threshold, with a credit to reduce.
C5_Witness ==
  /\ Returned("calculateChildTaxCredit")
  /\ probe.args.baseCredit = 2000
  /\ probe.args.adjustedGrossIncome =
       seeded(probe.args.taxYear)
         .childTaxCreditPhaseoutThreshold[probe.args.filingStatus] + 1

\* p dollars times r / 10^7, exactly.
TimesPerTenMillion(p, r) ==
  LET a == (p \div 1000) * r
      b == (p % 1000) * r
  IN  FixAdd([d |-> a \div 10^4, f |-> (a % 10^4) * 10^4],
             [d |-> b \div 10^7, f |-> (b % 10^7) * 10])

\* C6: the self-employment tax is 0 up to a profit of 400; above it, it is
\* 12.4 percent of min(0.9235 p, wage base) plus 2.9 percent of 0.9235 p
\* (the seeded rates doubled), so 14.12955 percent of p below the cap and
\* 12.4 percent of the wage base plus 2.67815 percent of p above it; it is
\* positive at 401, on 370.3235; at 10000 the base is 9235, the parts are
\* 1145.14 and 267.82 and the total is 1412.96 to the cent.
C6_SelfEmploymentTax ==
  Returned("calculateSelfEmploymentTax") =>
    LET p == probe.args.netProfit
        wageBase == seeded(probe.args.taxYear).socialSecurityWageBase
        total == probe.result.total
        parts == probe.result.parts
    IN  /\ p <= 400 => total = FixZero
        /\ (p > 400 /\ 9235 * p <= wageBase * 10000) =>
             total = TimesPerTenMillion(p, 1412955)
        /\ (p > 400 /\ 9235 * p > wageBase * 10000) =>
             total = FixAdd(MulIntRate(wageBase, 1240),
                            TimesPerTenMillion(p, 267815))
        /\ p > 400 => FixIsPos(total)
        /\ p = 401 =>
             /\ parts.seIncomeForTax = [d |-> 370, f |-> 32350000]
             /\ total = [d |-> 56, f |-> 65949550]
        /\ p = 10000 =>
             /\ parts.seIncomeForTax = Money(9235, 0)
             /\ roundToTwoDec(parts.socialSecurityTax) = Money(1145, 14)
             /\ roundToTwoDec(parts.medicareTax) = Money(267, 82)
             /\ roundToTwoDec(total) = Money(1412, 96)

\* A profit whose 92.35 percent is above the wage base.
C6_Witness ==
  /\ Returned("calculateSelfEmploymentTax")
  /\ probe.args.netProfit = 200000
  /\ FixIsPos(probe.result.total)

\* C7: with a configuration for the year, useItemized holds exactly when
\* the itemized total is above the standard deduction of the year and
\* status, deductionAmount is the larger of the two and savings is their
\* difference when itemizing and 0 otherwise; 12000 against 14600 gives
\* false, 14600 and 0.
C7_ItemizedVsStandard ==
  (Returned("calculateItemizedVsStandard") /\ probe.args.taxYear \in TaxYears)
    =>
    LET standard ==
          seeded(probe.args.taxYear).standardDeductions[probe.args.filingStatus]
        it == probe.args.itemizedDeductions
        out == probe.result
    IN  /\ out.useItemized <=> it > standard
        /\ out.deductionAmount = Max(it, standard)
        /\ out.savings = IF out.useItemized THEN it - standard ELSE 0
        /\ (standard = 14600 /\ it = 12000) =>
             out = [useItemized |-> FALSE, deductionAmount |-> 14600,
                    savings |-> 0]
        /\ it = standard => ~out.useItemized

\* An itemized total equal to the standard deduction.
C7_Witness ==
  /\ Returned("calculateItemizedVsStandard")
  /\ probe.args.taxYear = 2024
  /\ probe.args.filingStatus = SINGLE
  /\ probe.args.itemizedDeductions = 14600

(***************************************************************************)
(* Properties of the registry, one request at a time (under SpecSeq)       *)
(***************************************************************************)
GET == "getTaxLawConfiguration"
UPDATE == "updateTaxLawConfiguration"
CLEAR == "clearCache"

\* Caller c begins a request in this step.
Begins(c) ==
  /\ pc[c] \in {"idle", "done"}
  /\ pc'[c] # pc[c] \/ req'[c] # req[c]

\* Caller c's getTaxLawConfiguration comes back from a SELECT that found a
\* row.
Fetched(c) ==
  /\ pc[c] = "selected" /\ pc'[c] = "done"
  /\ req[c].op = GET
  /\ res[c].ok /\ res[c].rows # << >>

\* C8: a configuration fetched by get(year) is cached under the year; from
\* then on, until a clearCache or an upsert for the year, the entry stays
\* and every get(year) returns it without a query to the store.
C8_CacheFirst ==
  [][\A c \in Clients, y \in TaxYears :
       /\ (Fetched(c) /\ req[c].taxYear = y) =>
            /\ y \in DOMAIN configCache'
            /\ configCache'[y] = configOf(res[c].rows[1])
            /\ resp'[c].value = Some(configCache'[y])
       /\ ( /\ Begins(c) /\ req'[c].op = GET /\ req'[c].taxYear = y
            /\ y \in DOMAIN configCache ) =>
            /\ pc'[c] = "done"
            /\ res'[c] = None
            /\ resp'[c].value = Some(configCache[y])
            /\ UNCHANGED registry
       /\ ( /\ y \in DOMAIN configCache
            /\ y \notin DOMAIN configCache' \/ configCache'[y] # configCache[y]
          ) =>
            \E d \in Clients :
              \/ Begins(d) /\ req'[d].op = CLEAR
              \/ /\ pc[d] = "inserted" /\ pc'[d] = "done"
                 /\ req[d].config.taxYear = y
    ]_vars

\* A get answered from the cache, with no query, while the table holds the
\* row the entry came from.
C8_Witness ==
  /\ pc[1] = "done"
  /\ req[1].op = GET
  /\ res[1] = None
  /\ resp[1].value = Some(configOf(schemaSeedRow))
  /\ tax_law_configurations[2024] = schemaSeedRow

\* The table and the cache hold config for its year.
Holds(config) ==
  /\ "taxYear" \in DOMAIN config
  /\ config.taxYear \in DOMAIN tax_law_configurations
  /\ tax_law_configurations[config.taxYear] = rowOf(config)
  /\ config.taxYear \in DOMAIN configCache
  /\ configCache[config.taxYear] = config

C10_ClearCacheRefetches ==
  [][\A c \in Clients :
       /\ (Begins(c) /\ req'[c].op = CLEAR) =>
            /\ DOMAIN configCache' = {}
            /\ tax_law_configurations' = tax_law_configurations
       /\ ( /\ Begins(c) /\ req'[c].op = GET
            /\ \/ pc[c] = "done" /\ req[c].op = CLEAR
               \/ req'[c].taxYear \notin DOMAIN configCache ) =>
            /\ pc'[c] = "select"
            /\ UNCHANGED registry
       /\ (pc[c] = "select" /\ pc'[c] = "selected" /\ res'[c].ok) =>
            res'[c].rows =
              IF taxYearOf(req[c]) \in DOMAIN tax_law_configurations
              THEN << tax_law_configurations[taxYearOf(req[c])] >>
              ELSE << >>
       /\ Fetched(c) =>
            /\ DOMAIN configCache' = DOMAIN configCache \cup {req[c].taxYear}
            /\ configCache'[req[c].taxYear] = configOf(res[c].rows[1])
            /\ tax_law_configurations' = tax_law_configurations
    ]_vars

\* A get waits for the table again: the cache is empty after holding the
\* upserted configurations of both years.
C10_Witness ==
  /\ pc[1] = "select"
  /\ req[1].op = GET
  /\ DOMAIN configCache = {}
  /\ DOMAIN tax_law_configurations = {2023, 2024}

(***************************************************************************)
(* Properties of the registry with requests interleaving (under Spec)      *)
(***************************************************************************)
\* Caller c's last request was an upsert that returned true.
Upserted(c) == pc[c] = "done" /\ req[c].op = UPDATE /\ resp[c].value

\* The cache has no entry for the year or the one the table's row gives.
CacheAgreesWithStore(y) ==
  y \in DOMAIN configCache =>
    /\ y \in DOMAIN tax_law_configurations
    /\ configCache[y] = configOf(tax_law_configurations[y])

\* C11: once two upserts of the same year have both completed, however
\* they interleaved, the cache entry of the year is the table's entry; and
\* once an upsert and a clearCache have both completed, a cached entry of
\* the upsert's year is the table's entry.
C11_WritesSerialized ==
  \A c, d \in Clients :
    /\ ( /\ c # d /\ Upserted(c) /\ Upserted(d)
         /\ req[c].config.taxYear = req[d].config.taxYear ) =>
         /\ req[c].config.taxYear \in DOMAIN configCache
         /\ CacheAgreesWithStore(req[c].config.taxYear)
    /\ (c # d /\ Upserted(c) /\ pc[d] = "done" /\ req[d].op = CLEAR) =>
         CacheAgreesWithStore(req[c].config.taxYear)

\* Caller c's read request has returned after a SELECT that failed.
FetchFailed(c) == pc[c] = "done" /\ res[c] = [ok |-> FALSE]

\* Caller c's read request has returned after a SELECT that found no row.
FoundNoRow(c) ==
  /\ pc[c] = "done"
  /\ res[c] # None
  /\ res[c].ok
  /\ "rows" \in DOMAIN res[c]
  /\ res[c].rows = << >>

\* C12: a get, or a calculateTax, whose fetch failed returns something
\* other than the same request does when the table has no row for the
\* year, so the caller can tell the two apart.
C12_StoreUnavailableDistinct ==
  \A c, d \in Clients :
    ( /\ FetchFailed(c)
      /\ FoundNoRow(d)
      /\ req[c].op \in {GET, "calculateTax"}
      /\ req[d] = req[c] ) =>
      resp[c] # resp[d]

(***************************************************************************)
(* Properties of the requests on a missing configuration (under SpecSeq)   *)
(***************************************************************************)
\* C13: calculateTax on a return whose year has no row fails, carries no
\* calculation, and names an error kind other than the generic internal
\* error.
C13_ConfigurationMissingSurfaced ==
  \A c \in Clients :
    (FoundNoRow(c) /\ req[c].op = "calculateTax") =>
      /\ ~resp[c].success
      /\ "data" \notin DOMAIN resp[c]
      /\ resp[c].error.code # INTERNAL_ERROR

\* C15: an upsert of a configuration without a tax year is rejected: it
\* returns false, and no step of it changes the table or the cache.
C15_UpsertWithoutYearRejected ==
  [][\A c \in Clients :
       ( /\ pc'[c] \in {"insert", "inserted", "done"}
         /\ req'[c].op = UPDATE
         /\ "taxYear" \notin DOMAIN req'[c].config ) =>
         /\ UNCHANGED registry
         /\ pc'[c] = "done" => ~resp'[c].value
    ]_vars

\* An upsert of a configuration without a tax year has returned.
C15_Witness ==
  /\ pc[1] = "done"
  /\ req[1].op = UPDATE
  /\ "taxYear" \notin DOMAIN req[1].config
  /\ ~resp[1].value

(***************************************************************************)
(* Properties of the operations built on the calculator (under SpecCalc)   *)
(***************************************************************************)
\* |a - b|
FixDistance(a, b) == IF FixLe(a, b) THEN FixSub(b, a) ELSE FixSub(a, b)

\* C16: calculateTax does not fail on a return of a configured year; the
\* effective rate it returns is 0 when the adjusted gross income is 0, and
\* otherwise the returned liability over the returned adjusted gross
\* income, to the four decimals of the rate and the cent of the liability.
C16_EffectiveTaxRateGuarded ==
  (Returned("calculateTax") /\ probe.args.taxReturn.taxYear \in TaxYears) =>
    /\ probe.result.success
    /\ LET data == probe.result.data
           agi == data.adjustedGrossIncome
           distance ==
             FixDistance(MulIntRate(agi.d, data.effectiveTaxRate),
                         data.totalTaxLiability)
       IN  /\ agi.f = 0
           /\ agi = FixZero => data.effectiveTaxRate = 0
           /\ FixIsPos(agi) =>
                FixLe(FixAdd(distance, distance),
                      FixAdd(MulIntRate(agi.d, 1), Money(0, 1)))

\* An adjusted gross income clamped to 0 with self-employment tax due.
C16_Witness ==
  /\ Returned("calculateTax")
  /\ probe.result.success
  /\ probe.result.data.adjustedGrossIncome = FixZero
  /\ FixIsPos(probe.result.data.selfEmploymentTax)
  /\ FixIsPos(probe.result.data.totalTaxLiability)

\* C14: for a year without a configuration, calculateStandardDeduction,
\* calculateItemizedVsStandard and analyzeDeductionStrategy do not return
\* an ordinary result (a standard deduction of 0, a comparison against it,
\* taxes of 0 with a verdict).
C14_MissingConfigurationReported ==
  /\ ( /\ Returned("calculateStandardDeduction")
       /\ probe.args.taxYear = UnconfiguredYear ) =>
       probe.result # 0
  /\ ( /\ Returned("calculateItemizedVsStandard")
       /\ probe.args.taxYear = UnconfiguredYear ) =>
       "useItemized" \notin DOMAIN probe.result
  /\ ( /\ Returned("analyzeDeductionStrategy")
       /\ probe.args.taxReturn.taxYear = UnconfiguredYear ) =>
       "currentTax" \notin DOMAIN probe.result

\* The recommendations of a list whose potentialSavings is v, in the order
\* of the list.
WithSavings(recommendations, v) ==
  LET Saves(rec) == rec.potentialSavings = v
  IN  SelectSeq(recommendations, Saves)

\* C17: the recommendations optimizeDeductions returns are those of the
\* rules, in descending order of potentialSavings, those of equal
\* potentialSavings in the order the rules produced them; with a marginal
\* rate of 0 the list is in rule order.
C17_RecommendationsSortedStable ==
  Returned("optimizeDeductions") =>
    LET recs == probe.result.data.recommendations
        inRuleOrder == pushed(probe.args.taxReturn)
    IN  /\ Len(recs) = Len(inRuleOrder)
        /\ \A i, j \in DOMAIN recs :
             i < j => FixLe(recs[j].potentialSavings, recs[i].potentialSavings)
        /\ \A i \in DOMAIN inRuleOrder :
             WithSavings(recs, inRuleOrder[i].potentialSavings)
               = WithSavings(inRuleOrder, inRuleOrder[i].potentialSavings)
        /\ probe.args.taxReturn.calculations.marginalTaxRate = 0 =>
             recs = inRuleOrder

\* The sort has moved recommendations, and two of different categories
\* with the same savings above 0 are among them.
C17_Witness ==
  /\ Returned("optimizeDeductions")
  /\ LET recs == probe.result.data.recommendations
     IN  /\ recs # pushed(probe.args.taxReturn)
         /\ \E i, j \in DOMAIN recs :
              /\ i < j
              /\ recs[i].potentialSavings = recs[j].potentialSavings
              /\ FixIsPos(recs[i].potentialSavings)
              /\ recs[i].category # recs[j].category

\* The return with the calculations calculateTax gives for it now.
Recalculated(taxReturn) ==
  [taxReturn EXCEPT
     !.calculations = calculation(taxReturn, seeded(taxReturn.taxYear))]

\* C18: the recommendations of optimizeDeductions are those its rules give
\* on the adjusted gross income and the marginal rate that calculateTax
\* computes for the return as it is, whatever calculations the return has
\* stored.
C18_AdvisorUsesCalculator ==
  Returned("optimizeDeductions") =>
    probe.result.data.recommendations
      = generateDeductionRecommendations(Recalculated(probe.args.taxReturn))

\* C19: every recommendation's potentialSavings is its estimatedAmount
\* times one marginal rate, the same for all of a call, and the aggregate
\* potentialSavings is the sum of the recommendations', 0 for none.
C19_SavingsAreAmountTimesRate ==
  Returned("optimizeDeductions") =>
    LET recs == probe.result.data.recommendations
        rate == probe.args.taxReturn.calculations.marginalTaxRate
        total[n \in 0 .. Len(recs)] ==
          IF n = 0 THEN FixZero
          ELSE FixAdd(total[n - 1], recs[n].potentialSavings)
    IN  /\ \A i \in DOMAIN recs :
             /\ recs[i].potentialSavings
                  = FixAdd(MulIntRate(recs[i].estimatedAmount.d, rate),
                           [ d |-> 0,
                             f |-> (recs[i].estimatedAmount.f \div 10^4) * rate ])
             /\ recs[i].estimatedAmount.f % 10^4 = 0
        /\ probe.result.data.potentialSavings = total[Len(recs)]
        /\ recs = << >> => probe.result.data.potentialSavings = FixZero

\* Recommendations whose amounts differ, one of them with a fraction of a
\* dollar, at a marginal rate above 0.
C19_Witness ==
  /\ Returned("optimizeDeductions")
  /\ probe.args.taxReturn.calculations.marginalTaxRate > 0
  /\ \E i, j \in DOMAIN probe.result.data.recommendations :
       LET a == probe.result.data.recommendations[i]
           b == probe.result.data.recommendations[j]
       IN  /\ a.estimatedAmount.f > 0
           /\ a.estimatedAmount # b.estimatedAmount
           /\ FixIsPos(a.potentialSavings)

\* C20: for a return of a configured year, analyzeDeductionStrategy
\* returns as currentTax the total tax liability of the return, as newTax
\* that of the return with its itemized total raised by the sum of the
\* proposed amounts, as savings their difference, and 'itemize' exactly
\* when the raised total is above the standard deduction of the year and
\* status, 'standard' otherwise.
C20_DeductionStrategy ==
  ( /\ Returned("analyzeDeductionStrategy")
    /\ probe.args.taxReturn.taxYear \in TaxYears ) =>
    LET r == probe.args.taxReturn
        proposed == probe.args.proposedDeductions
        config == seeded(r.taxYear)
        raisedTotal ==
          r.deductions.totalItemizedDeductions
          + reduce([i \in DOMAIN proposed |-> proposed[i].amount])
        raised ==
          TaxReturn(r.taxYear, r.filingStatus, r.income,
                    Deductions(r.deductions.adjustments, raisedTotal),
                    r.credits)
        out == probe.result
    IN  /\ out.currentTax = calculation(r, config).totalTaxLiability
        /\ out.newTax = calculation(raised, config).totalTaxLiability
        /\ FixAdd(out.savings, out.newTax) = out.currentTax
        /\ out.recommendation \in {"itemize", "standard"}
        /\ out.recommendation = "itemize"
             <=> raisedTotal > config.standardDeductions[r.filingStatus]

\* Proposed deductions that raise the itemized total exactly to the
\* standard deduction, and a return they would save nothing on.
C20_Witness ==
  /\ Returned("analyzeDeductionStrategy")
  /\ probe.args.taxReturn.taxYear = 2024
  /\ probe.args.taxReturn.filingStatus = SINGLE
  /\ probe.args.taxReturn.deductions.totalItemizedDeductions = 12000
  /\ Len(probe.args.proposedDeductions) = 1
  /\ probe.result.recommendation = "standard"
  /\ FixIsPos(probe.result.currentTax)
  /\ probe.result.savings = FixZero

(***************************************************************************)
(* Properties of the startup (under SpecBoot)                              *)
(***************************************************************************)
\* C21: once the seeding has ended and the service listens, a get of 2023
\* or 2024 whose fetch did not fail answers the configuration seeded for
\* the year, and calculateStandardDeduction answers its standard deduction
\* (14600 for single, 29200 for married filing jointly in 2024).
C21_SeededWhenListening ==
  ( /\ listening
    /\ pc[Requester] = "done"
    /\ ~FetchFailed(Requester) ) =>
    /\ req[Requester].op = GET =>
         resp[Requester].value = Some(seeded(req[Requester].taxYear))
    /\ req[Requester].op = "calculateStandardDeduction" =>
         resp[Requester].value =
           seeded(req[Requester].taxYear).standardDeductions[
             req[Requester].filingStatus]

(***************************************************************************)
(* Properties of the income derivation (under SpecCalc)                    *)
(***************************************************************************)
\* C22: in every calculation calculateTax returns, adjustedGrossIncome is
\* max(0, grossIncome - sum of the adjustment amounts) and taxableIncome is
\* max(0, adjustedGrossIncome - max(standard deduction of the status,
\* totalItemizedDeductions)), so 0 <= taxableIncome <= adjustedGrossIncome,
\* whatever itemized entries the return carries.
C22_IncomeDerivation ==
  (Returned("calculateTax") /\ probe.result.success) =>
    LET r == probe.args.taxReturn
        data == probe.result.data
        adjustments ==
          reduce([i \in DOMAIN r.deductions.adjustments |->
                    r.deductions.adjustments[i].amount])
        deductionAmount ==
          Max(seeded(r.taxYear).standardDeductions[r.filingStatus],
              r.deductions.totalItemizedDeductions)
    IN  /\ data.adjustedGrossIncome =
             FixMax(FixZero, FixSub(data.grossIncome, FixOfInt(adjustments)))
        /\ data.taxableIncome =
             FixMax(FixZero, FixSub(data.adjustedGrossIncome,
                                    FixOfInt(deductionAmount)))
        /\ FixLe(FixZero, data.taxableIncome)
        /\ FixLe(data.taxableIncome, data.adjustedGrossIncome)

\* A return whose itemized entries sum to 17000 while its total-itemized
\* figure is 20000, above the standard deduction: 60000 - 2000 - 20000.
C22_Witness ==
  /\ Returned("calculateTax")
  /\ probe.result.success
  /\ "itemizedDeductions" \in DOMAIN probe.args.taxReturn.deductions
  /\ reduce([i \in DOMAIN probe.args.taxReturn.deductions.itemizedDeductions |->
               probe.args.taxReturn.deductions.itemizedDeductions[i].amount])
       = 17000
  /\ probe.args.taxReturn.deductions.totalItemizedDeductions = 20000
  /\ probe.args.taxReturn.filingStatus = SINGLE
  /\ probe.result.data.adjustedGrossIncome = FixOfInt(58000)
  /\ probe.result.data.taxableIncome = FixOfInt(38000)

(***************************************************************************)
(* Properties of the bracket walk on large incomes (under SpecCalc)        *)
(***************************************************************************)
\* C23: for every taxable income >= 0, also one above the largest max of
\* the configuration, the bracket walk leaves no income unassigned, and an
\* income at or above the top bracket's min pays the tax on that min plus
\* the top rate on everything above it.
C23_TopBracketUnbounded ==
  Returned("calculateFederalTax") =>
    LET config == seeded(probe.args.taxYear)
        fs == probe.args.filingStatus
        brackets == config.taxBrackets[fs]
        top == brackets[Len(brackets)]
        x == probe.args.taxableIncome
    IN  /\ unassigned(brackets, 1, x) = 0
        /\ x >= top.min =>
             probe.result =
               FixAdd(calculateFederalTax(top.min, config, fs),
                      MulIntRate(x - top.min, top.rate))

(***************************************************************************)
(* Properties of the medical rule (under SpecCalc)                         *)
(***************************************************************************)
\* The recommendations of the medical rule that name the amount missing to
\* the threshold.
MedicalGapRecommendations(recommendations) ==
  SelectSeq(recommendations,
            LAMBDA rec : /\ rec.category = MEDICAL_DENTAL
                         /\ rec.description = "medical expenses to the threshold")

\* The medical itemized total M of a return.
MedicalTotal(taxReturn) ==
  reduce([i \in DOMAIN taxReturn.deductions.itemizedDeductions |->
            IF taxReturn.deductions.itemizedDeductions[i].category
                 = "medical_dental"
            THEN taxReturn.deductions.itemizedDeductions[i].amount ELSE 0])

\* 7.5 percent of the adjusted gross income the return carries.
MedicalThreshold(taxReturn) ==
  LET agi == taxReturn.calculations.adjustedGrossIncome
  IN  FixAdd(MulIntRate(agi.d, 750), [d |-> 0, f |-> (agi.f \div 10^4) * 750])

\* C24: when the medical total M is below 7.5% of the adjusted gross
\* income, optimizeDeductions recommends once on the gap, with
\* estimatedAmount = threshold - M; when M is at or above the threshold it
\* makes no such recommendation.
C24_MedicalGap ==
  Returned("optimizeDeductions") =>
    LET r == probe.args.taxReturn
        gaps == MedicalGapRecommendations(probe.result.data.recommendations)
        M == FixOfInt(MedicalTotal(r))
    IN  IF FixLt(M, MedicalThreshold(r))
        THEN /\ Len(gaps) = 1
             /\ gaps[1].estimatedAmount = FixSub(MedicalThreshold(r), M)
        ELSE gaps = << >>

\* C24 as amended: below the threshold the estimatedAmount is the gap plus
\* one dollar, threshold - M + 1, the amount that takes the medical total
\* past the threshold; at or above the threshold there is no such
\* recommendation.
C24_MedicalGapPlusOne ==
  Returned("optimizeDeductions") =>
    LET r == probe.args.taxReturn
        gaps == MedicalGapRecommendations(probe.result.data.recommendations)
        M == FixOfInt(MedicalTotal(r))
    IN  IF FixLt(M, MedicalThreshold(r))
        THEN /\ Len(gaps) = 1
             /\ FixSub(gaps[1].estimatedAmount, FixOfInt(1))
                  = FixSub(MedicalThreshold(r), M)
        ELSE gaps = << >>

\* Medical expenses of 5000 on an adjusted gross income of 100000: the
\* threshold is 7500 and the recommendation names 2501.
C24_Witness ==
  /\ Returned("optimizeDeductions")
  /\ MedicalTotal(probe.args.taxReturn) = 5000
  /\ probe.args.taxReturn.calculations.adjustedGrossIncome = FixOfInt(100000)
  /\ \E i \in DOMAIN probe.result.data.recommendations :
       /\ probe.result.data.recommendations[i].category = MEDICAL_DENTAL
       /\ probe.result.data.recommendations[i].estimatedAmount = FixOfInt(2501)

(***************************************************************************)
(* Properties of a get in flight during an upsert (under Spec)             *)
(***************************************************************************)
\* Caller c's last request was a read that missed the cache and came back
\* from its SELECT with a row.
FetchedRow(c) ==
  /\ pc[c] = "done"
  /\ res[c] # None
  /\ req[c].op \in {GET, "calculateTax", "calculateStandardDeduction",
                    "calculateItemizedVsStandard"}
  /\ res[c].ok
  /\ res[c].rows # << >>

\* C25: once a get that missed the cache and an upsert of the same year
\* by another caller have both completed, however their steps interleaved,
\* the cache entry of the year is the configuration of the table's row.
C25_GetInFlightKeepsCacheFresh ==
  \A c, d \in Clients :
    ( /\ c # d
      /\ FetchedRow(c)
      /\ Upserted(d)
      /\ req[d].config.taxYear = taxYearOf(req[c]) ) =>
      /\ taxYearOf(req[c]) \in DOMAIN configCache
      /\ CacheAgreesWithStore(taxYearOf(req[c]))

(***************************************************************************)
(* Properties of the advisor among registry writes (under SpecAdvise)      *)
(***************************************************************************)
\* C26: in every result of optimizeDeductions, whatever upserts and
\* clearCache interleave with the call, useItemized holds exactly when
\* itemizedAmount > standardAmount, and savings is itemizedAmount -
\* standardAmount when useItemized and 0 otherwise.
C26_StandardVsItemizedConsistent ==
  \A c \in Clients :
    (pc[c] = "done" /\ req[c].op = "optimizeDeductions") =>
      LET s == resp[c].data.standardVsItemized
      IN  /\ s.useItemized <=> s.itemizedAmount > s.standardAmount
          /\ s.savings = IF s.useItemized
                         THEN s.itemizedAmount - s.standardAmount ELSE 0

(***************************************************************************)
(* Properties of failed registry operations (under SpecSeq)                *)
(***************************************************************************)
\* C27: a get whose fetch fails or finds no row, and an upsert whose
\* statement fails, leave the cache exactly as it was, and the upsert
\* returns false; a get that follows a successful upsert of its year
\* returns the upserted configuration.
C27_CacheChangesOnlyOnSuccess ==
  [][\A c \in Clients :
       /\ ( /\ pc[c] = "selected" /\ pc'[c] = "done"
            /\ ~(res[c].ok /\ res[c].rows # << >>) ) =>
            configCache' = configCache
       /\ (pc[c] = "inserted" /\ pc'[c] = "done" /\ ~res[c].ok) =>
            /\ configCache' = configCache
            /\ resp'[c].value = FALSE
       /\ ( /\ Upserted(c)
            /\ Begins(c)
            /\ req'[c].op = GET
            /\ req'[c].taxYear = req[c].config.taxYear ) =>
            /\ pc'[c] = "done"
            /\ resp'[c].value = Some(req[c].config)
    ]_vars

\* A get of 2023 has found no row and returned null, and the cache has no
\* entry for 2023.
C27_Witness ==
  /\ FoundNoRow(1)
  /\ req[1].op = GET
  /\ req[1].taxYear = 2023
  /\ resp[1].value = Null
  /\ 2023 \notin DOMAIN configCache

(***************************************************************************)
(* Properties of the stored calculations (under SpecCalc)                  *)
(***************************************************************************)
\* C28: after POST calculate has succeeded and stored its result, the
\* return getTaxReturnById loads carries calculations equal, field by
\* field, to the calculation the request answered.
C28_CalculationsRoundTrip ==
  ( /\ Returned("calculateThenReload")
    /\ probe.result.response.success ) =>
    \A f \in DOMAIN probe.result.response.data :
      probe.result.reloaded.calculations[f] = probe.result.response.data[f]

(***************************************************************************)
(* Properties of analyzeDeductionStrategy's effects (under SpecCalc)       *)
(***************************************************************************)
\* C29: analyzeDeductionStrategy leaves the caller's return as it was, its
\* totalItemizedDeductions in particular, and a second call with the same
\* arguments returns what the first returned.
C29_InputUnchanged ==
  Returned("analyzeDeductionStrategyTwice") =>
    /\ probe.result.taxReturn = probe.args.taxReturn
    /\ probe.result.taxReturn.deductions.totalItemizedDeductions
         = probe.args.taxReturn.deductions.totalItemizedDeductions
    /\ probe.result.second = probe.result.first

\* Proposed deductions of 30000 that lower the tax of a return with an
\* itemized total of 12000, which is 12000 after the call.
C29_Witness ==
  /\ Returned("analyzeDeductionStrategyTwice")
  /\ Len(probe.args.proposedDeductions) = 1
  /\ probe.args.proposedDeductions[1].amount = 30000
  /\ probe.args.taxReturn.deductions.totalItemizedDeductions = 12000
  /\ FixLt(probe.result.first.newTax, probe.result.first.currentTax)
  /\ probe.result.taxReturn.deductions.totalItemizedDeductions = 12000

\* C30: when no proposed amount is negative, and every lookup of the call
\* answers the same configuration, the savings analyzeDeductionStrategy
\* returns are >= 0, and exactly 0 whenever its verdict is 'standard'.
C30_SavingsNeverNegative ==
  ( /\ Returned("analyzeDeductionStrategy")
    /\ \A i \in DOMAIN probe.args.proposedDeductions :
         probe.args.proposedDeductions[i].amount >= 0 ) =>
    /\ FixLe(FixZero, probe.result.savings)
    /\ FixLe(probe.result.newTax, probe.result.currentTax)
    /\ probe.result.recommendation = "standard" =>
         /\ probe.result.savings = FixZero
         /\ probe.result.newTax = probe.result.currentTax

\* Two proposed deductions that bring an itemized total of 0 up to the
\* standard deduction of a taxed return: the verdict is 'standard' and
\* nothing is saved.
C30_Witness ==
  /\ Returned("analyzeDeductionStrategy")
  /\ Len(probe.args.proposedDeductions) = 2
  /\ probe.args.taxReturn.taxYear = 2024
  /\ probe.args.taxReturn.filingStatus = SINGLE
  /\ probe.args.taxReturn.deductions.totalItemizedDeductions = 0
  /\ FixIsPos(probe.result.currentTax)
  /\ probe.result.recommendation = "standard"
  /\ probe.result.savings = FixZero

=============================================================================
